---- MODULE Spec2Model ----
(***************************************************************************)
(* Model of the pboted DHT engine (src/src/DHTworker.cpp) and of the       *)
(* packet dispatcher (PacketHandler.cpp, kept as src/unnamed/part_000).    *)
(*                                                                         *)
(* SpecTable : the node table under concurrent addNode callers, loadNodes  *)
(*             and the node-persistence ticker.                            *)
(* SpecDispatch : the packet dispatcher taking datagrams while verbs       *)
(*             register and remove batches.                                *)
(* SpecVerb  : find and store with closestNodesLookupTask on one worker    *)
(*             thread, the dispatcher delivering answers meanwhile.        *)
(*                                                                         *)
(* BoteContext, PacketBatch, parseCommPacket, DHTStorage and the constants *)
(* of DHTworker.h are outside the sources at hand; they are modelled as    *)
(* the specification describes them.                                       *)
(***************************************************************************)
EXTENDS Integers, Sequences, FiniteSets, TLC

(***************************************************************************)
(* Bounds of the model.                                                    *)
(***************************************************************************)
NumPeers == 4
NumThreads == 2
NumTableIds == 1
NumKeys == 2
MaxCalls == 2
MaxAsked == 2

\* length in bytes of a standard identity with its certificate
IdentFullLen == 387

\* constants of DHTworker.h: the node count a verb needs, and the timeouts
\* in seconds of one wait and of a whole lookup
MIN_CLOSEST_NODES == 3
RESPONSE_TIMEOUT == 10
CLOSEST_NODES_LOOKUP_TIMEOUT == 30

(***************************************************************************)
(* Identities, their base64 text form and their identity hash.             *)
(***************************************************************************)
LocalId == 0
Peers == 1..NumPeers
Identities == {LocalId} \cup Peers
Threads == 1..NumThreads

\* The identities that the callers, nodes.txt and the bootstrap option of
\* SpecTable are drawn from: the local one and the first peers.
TableIds == {LocalId} \cup (1..NumTableIds)

NoIdent == -1
NoNode == [hash |-> -1, ident |-> NoIdent]

\* IdentityEx::ToBase64: the text form of an identity.
ToBase64(id) == <<"b64", id>>

\* A destination string that is not the base64 form of any identity.
JunkDest == <<"junk">>

\* IdentityEx::FromBase64: parses a destination string; NoIdent on failure.
FromBase64(dest) ==
  IF Len(dest) = 2 /\ dest[1] = "b64" /\ dest[2] \in Identities
  THEN dest[2] ELSE NoIdent

DestStrings == {ToBase64(id) : id \in Identities} \cup {JunkDest}

\* IdentityEx::GetIdentHash: SHA-256 of the identity, an injective map whose
\* order differs from the order of the identities.
IdentHash(id) == (id * 3 + 2) % 7

\* std::make_shared<Node>() followed by FromBase64(identity.ToBase64()).
NewNode(id) == [hash |-> IdentHash(FromBase64(ToBase64(id))),
                ident |-> FromBase64(ToBase64(id))]

(***************************************************************************)
(* State.                                                                  *)
(***************************************************************************)
VARIABLES
  m_nodes_,      \* std::map<IdentHash, Node>: sequence of nodes in key order
  started_,      \* DHTworker::started_
  nodesFile,     \* nodes.txt: whether it exists, and its lines
  loadResult,    \* what the last loadNodes returned ("none" before the first)
  pc,            \* position of every addNode caller
  arg,           \* identity a caller passes to addNode(identity)
  ret,           \* value the caller's addNode returned
  absentAtCall,  \* history: the identity was absent when addNode was entered
  trueReturns,   \* history: per identity, how many addNode calls returned true
  runningBatches, \* BoteContext: the batches registered for responses
  batches,       \* every PacketBatch: its requests and the responses it holds
  dht_storage_,  \* DHTworker::dht_storage_: stored bytes per class and key
  rx,             \* the datagram the dispatcher handled last, and what it did
  vpc,           \* position of the verb thread
  call,          \* the verb it runs: find or store, and find's exhaustive
  active_requests, \* DHTworker::active_requests: CID and node per request
  closestNodes,  \* closestNodes of the lookup, then of find or store
  responses,     \* responses of closestNodesLookupTask
  exec_duration, \* seconds since the lookup started
  counter,       \* counter of the retry loop
  result,        \* what find or store returns
  calls,         \* history: verbs called so far
  waits,         \* history: waits of RESPONSE_TIMEOUT in this call
  sends,         \* history: context.send of the verb's batch in this call
  waitHadResponse, \* history: a wait of the verb ended with a response
  usedTable,     \* history: find or store appended the node table
  lookupCount,   \* history: nodes the lookup of this call returned
  peerList,      \* a peer list: the nodes, its bytes, the decoded identities
  email_started_, \* EmailWorker::started_
  mailFiles,     \* what the MIME file of every mail holds
  outboxDir,     \* the mails with a file in outbox/
  sentDir,       \* the mails with a file in sent/
  outbox,        \* sendEmailTask: the emails checkOutbox loaded this round
  spc,           \* position of the send thread
  loads,         \* history: per mail, the rounds that loaded it (saturating)
  cpc,           \* position of the check thread of one identity
  enc_mail_packets, \* checkEmailTask: what retrieveEmailPacket returned
  check_emails,  \* checkEmailTask: emails, what processEmail returned, to do
  inbox,         \* history: the emails this round saved to inbox/
  deleteRequests, \* history: the DHT delete requests this round issued
  checkLog,      \* history: what the round did per email, in order
  email_identities, \* context: the names of the identities there are now
  supervisors,   \* position of every thread that runs EmailWorker::run
  m_worker_thread_, \* EmailWorker::m_worker_thread_: a supervisor, or 0
  m_send_thread_, \* EmailWorker::m_send_thread_: null, or the thread's state
  m_check_threads_, \* EmailWorker::m_check_threads_: name to thread state
  sendLive,      \* history: threads running sendEmailTask
  checkLive,     \* history: per name, threads running checkEmailTask
  wpc,           \* position of the thread that calls start() and stop()
  handler_started_, \* RequestHandler::started_
  m_PHandlerThread, \* RequestHandler::m_PHandlerThread: null, or its position
  m_recvQueue,   \* the receive queue: how many datagrams wait in it
  hpc,           \* position of the thread that calls RequestHandler::stop
  dht_worker_thread_, \* DHTworker::m_worker_thread_: null, or its position
  dpc,           \* position of the thread that calls DHTworker::stop
  resp,          \* an uncorrelated response: its payload and what
                 \* receiveResponsePkt read and returned
  closestCall,   \* a call of getClosestNodes: the table, the arguments
                 \* and the nodes returned
  m_nodes_mutex_, \* DHTworker::m_nodes_mutex_: the thread that holds it, or 0
  access,        \* per thread, the function in which it is at m_nodes_
  markCall,      \* a lookup followed for its Node objects: the objects,
                 \* the pointers of the table and of active_requests
  entryLoop,     \* the entry loop of receiveIndexPacketDeleteRequest
  retrieval,     \* the retrieval of a check round: index packets, email packets
  lookupThreads  \* concurrent lookups: active_requests and who is at it

vars == <<m_nodes_, started_, nodesFile, loadResult,
          pc, arg, ret, absentAtCall, trueReturns,
          runningBatches, batches, dht_storage_, rx,
          vpc, call, active_requests, closestNodes, responses,
          exec_duration, counter, result, calls, waits, sends,
          waitHadResponse, usedTable, lookupCount,
          peerList, email_started_, mailFiles, outboxDir, sentDir, outbox,
          spc, loads,
          cpc, enc_mail_packets, check_emails, inbox, deleteRequests,
          checkLog,
          email_identities, supervisors, m_worker_thread_, m_send_thread_,
          m_check_threads_, sendLive, checkLive, wpc,
          handler_started_, m_PHandlerThread, m_recvQueue, hpc,
          dht_worker_thread_, dpc, resp, closestCall, m_nodes_mutex_,
          access, markCall,
          entryLoop,
          retrieval,
          lookupThreads>>

verbVars == <<vpc, call, active_requests, closestNodes, responses,
              exec_duration, counter, result, calls, waits, sends,
              waitHadResponse, usedTable, lookupCount>>

mailVars == <<email_started_, mailFiles, outboxDir, sentDir, outbox, spc,
              loads>>

\* the check thread of an identity
checkVars == <<cpc, enc_mail_packets, check_emails, inbox, deleteRequests,
               checkLog>>

\* the threads of EmailWorker
workerVars == <<email_identities, supervisors, m_worker_thread_,
                m_send_thread_, m_check_threads_, sendLive, checkLive, wpc>>

\* the packet handler thread, the thread of DHTworker::run and their stop
stopVars == <<handler_started_, m_PHandlerThread, m_recvQueue, hpc,
              dht_worker_thread_, dpc>>

\* the threads and functions that are followed on their own
\* the node-table mutex and who is at the node table
mutexVars == <<m_nodes_mutex_, access>>

\* the functions and loops that are followed on their own
lateVars == <<markCall, entryLoop, retrieval, lookupThreads>>

taskVars == <<checkVars, workerVars, stopVars, resp, closestCall, mutexVars,
              lateVars>>

\* the content store, which no handler writes, with the peer list under
\* conversion and the state of the email worker
restVars == <<dht_storage_, peerList, mailVars, taskVars>>

\* what the node-table operations of SpecTable leave alone
dhtVars == <<runningBatches, batches, restVars, rx, verbVars>>

\* no verb is running
NoCall == [kind |-> "none", exhaustive |-> FALSE]

\* the verb thread before its first call
VerbIdle ==
  /\ vpc = "idle"
  /\ call = NoCall
  /\ active_requests = {}
  /\ closestNodes = <<>>
  /\ responses = <<>>
  /\ exec_duration = 0
  /\ counter = 0
  /\ result = <<>>
  /\ calls = 0
  /\ waits = 0
  /\ sends = 0
  /\ waitHadResponse = FALSE
  /\ usedTable = FALSE
  /\ lookupCount = 0

\* no peer list is under conversion
NoPeerList == [pc |-> "none", ver |-> 0, nodes |-> <<>>, buf |-> <<>>,
               out |-> <<>>]

\* the email worker before it is started, with empty mail directories
MailIdle ==
  /\ email_started_ = FALSE
  /\ mailFiles = <<>>
  /\ outboxDir = {}
  /\ sentDir = {}
  /\ outbox = <<>>
  /\ spc = "none"
  /\ loads = <<>>

\* no check thread is running
CheckIdle ==
  /\ cpc = "none"
  /\ enc_mail_packets = <<>>
  /\ check_emails = <<>>
  /\ inbox = {}
  /\ deleteRequests = {}
  /\ checkLog = <<>>

\* EmailWorker as constructed, with no identity
WorkerIdle ==
  /\ email_identities = {}
  /\ supervisors = <<>>
  /\ m_worker_thread_ = 0
  /\ m_send_thread_ = "null"
  /\ m_check_threads_ = <<>>
  /\ sendLive = 0
  /\ checkLive = <<>>
  /\ wpc = "idle"

\* RequestHandler and DHTworker without their threads
StopIdle ==
  /\ handler_started_ = FALSE
  /\ m_PHandlerThread = "null"
  /\ m_recvQueue = 0
  /\ hpc = "idle"
  /\ dht_worker_thread_ = "null"
  /\ dpc = "idle"

\* no response is under way
NoResp == [pc |-> "none", payload |-> <<>>, ver |-> 0, read |-> {},
           dataRead |-> {}, ret |-> "none"]

\* no call of getClosestNodes is under way
NoClosest == [pc |-> "none", nodes |-> <<>>, key |-> 0, num |-> 0,
              to_us |-> FALSE, res |-> <<>>]

\* the functions that are followed on their own are not called
FuncIdle == resp = NoResp /\ closestCall = NoClosest

\* the mutex is free and no thread is followed at the node table
MutexIdle == m_nodes_mutex_ = 0 /\ access = <<>>

\* no lookup is followed for its Node objects
NoMark == [pc |-> "none", heap |-> <<>>, m_nodes_ |-> <<>>,
           active_requests |-> {}, asked |-> {}, answered |-> {}]

MarkIdle == markCall = NoMark

\* the entry loop of a delete request is not running
NoEntryLoop == [pc |-> "none", num |-> 0, i |-> [hi |-> 0, lo |-> 0],
                offset |-> 0, reads |-> <<>>, wrapped |-> FALSE]

EntryIdle == entryLoop = NoEntryLoop

\* no retrieval of a check round is followed
NoRetrieval == [pc |-> "none", local_index_packet |-> <<>>,
                index_packets |-> <<>>, enc_mail_packets |-> <<>>]

RetrievalIdle == retrieval = NoRetrieval

\* no thread is followed in a lookup of its own
NoLookups == [active_requests |-> {}, th |-> <<>>]

LookupsIdle == lookupThreads = NoLookups

\* nothing is followed on its own
LateIdle ==
  /\ MarkIdle
  /\ EntryIdle
  /\ RetrievalIdle
  /\ LookupsIdle

\* nothing else is running
TaskIdle ==
  CheckIdle /\ WorkerIdle /\ StopIdle /\ FuncIdle /\ MutexIdle /\ LateIdle

\* the email worker started, with empty mail directories
MailIdleStarted ==
  /\ email_started_ = TRUE
  /\ mailFiles = <<>>
  /\ outboxDir = {}
  /\ sentDir = {}
  /\ outbox = <<>>
  /\ spc = "none"
  /\ loads = <<>>

tableVars == <<m_nodes_, started_, nodesFile, loadResult>>
callerVars == <<pc, arg, ret, absentAtCall, trueReturns>>

(***************************************************************************)
(* std::map operations on m_nodes_.                                        *)
(***************************************************************************)
Hashes(map) == {map[i].hash : i \in 1..Len(map)}

\* m_nodes_.find(ident) as used by findNode: the node or nullptr.
FindNode(map, h) ==
  IF \E i \in 1..Len(map) : map[i].hash = h
  THEN map[CHOOSE i \in 1..Len(map) : map[i].hash = h]
  ELSE NoNode

\* Position-preserving insertion: a std::map iterates in key order.
InsertSorted(map, node) ==
  LET k == Cardinality({i \in 1..Len(map) : map[i].hash < node.hash})
  IN SubSeq(map, 1, k) \o <<node>> \o SubSeq(map, k + 1, Len(map))

\* A map insertion that does not look for the key first.
MapInsertBlind(map, node) ==
  [map |-> InsertSorted(map, node), second |-> TRUE]

\* m_nodes_.insert(pair(hash, node)): .second tells whether it was inserted.
MapInsert(map, node) ==
  IF node.hash \in Hashes(map)
  THEN [map |-> map, second |-> FALSE]
  ELSE [map |-> InsertSorted(map, node), second |-> TRUE]

RECURSIVE InsertAll(_, _)
\* The insertion loop of loadNodes: every node of the list, no other check.
InsertAll(map, ids) ==
  IF ids = <<>> THEN map
  ELSE InsertAll(MapInsert(map, NewNode(Head(ids))).map, Tail(ids))

(***************************************************************************)
(* nodes.txt                                                               *)
(***************************************************************************)
CommentLine == <<"#">>
BlankLine == <<>>

\* The text that writeNodes produces for a table.
FileOfNodes(map) ==
  [exists |-> TRUE,
   lines |-> <<CommentLine, CommentLine, BlankLine>>
               \o [i \in 1..Len(map) |-> ToBase64(map[i].ident)]]

RECURSIVE SelectLines(_)
\* readNodes keeps the lines that are neither empty nor comments.
SelectLines(lines) ==
  IF lines = <<>> THEN <<>>
  ELSE IF Head(lines) # BlankLine /\ Head(lines)[1] # "#"
       THEN <<Head(lines)>> \o SelectLines(Tail(lines))
       ELSE SelectLines(Tail(lines))

\* readNodes that keeps every line of the file
readNodesAll(file) == IF ~file.exists THEN <<>> ELSE file.lines

\* !nodes_file.is_open() gives no lines at all.
readNodes(file) == IF ~file.exists THEN <<>> ELSE SelectLines(file.lines)

\* nodes.txt cannot be opened.
AbsentFile == [exists |-> FALSE, lines |-> <<>>]

RECURSIVE TableOf(_)
\* The table that holds exactly the identities of a set.
TableOf(ids) ==
  IF ids = {} THEN <<>>
  ELSE LET id == CHOOSE x \in ids : TRUE
       IN MapInsert(TableOf(ids \ {id}), NewNode(id)).map

\* nodes.txt as something other than this run left it: absent, or written by
\* the writeNodes of another run or installation for the nodes it knew.
ForeignFiles ==
  {AbsentFile} \cup {FileOfNodes(TableOf(ids)) : ids \in SUBSET TableIds}

\* Values of the configuration option bootstrap.address.
BootstrapOptions ==
  {<<>>, <<JunkDest>>, <<ToBase64(LocalId)>>, <<ToBase64(1)>>}

TableDests == {ToBase64(id) : id \in TableIds} \cup {JunkDest}

(***************************************************************************)
(* addNode, split at the points where the node-table mutex is released.    *)
(***************************************************************************)
\* The checks of addNode without the comparison with the local destination.
AddNodeCheckNoLocal(map, id) ==
  IF FindNode(map, IdentHash(id)) # NoNode THEN "duplicate"
  ELSE "insert"

\* Outcome of lines 82-91 of addNode: duplicate, local, or go on to insert.
AddNodeCheck(map, id) ==
  IF FindNode(map, IdentHash(id)) # NoNode THEN "duplicate"
  ELSE IF id = LocalId THEN "local"
  ELSE "insert"

\* addNode(const std::string &dest)
CallAddNodeStr(t, dest) ==
  /\ pc[t] = "idle"
  /\ IF FromBase64(dest) # NoIdent
     THEN /\ pc' = [pc EXCEPT ![t] = "addNode"]
          /\ arg' = [arg EXCEPT ![t] = FromBase64(dest)]
          /\ absentAtCall' = [absentAtCall EXCEPT ![t] =
               FindNode(m_nodes_, IdentHash(FromBase64(dest))) = NoNode]
          /\ UNCHANGED ret
     ELSE /\ pc' = [pc EXCEPT ![t] = "done"]
          /\ arg' = [arg EXCEPT ![t] = NoIdent]
          /\ ret' = [ret EXCEPT ![t] = FALSE]
          /\ absentAtCall' = [absentAtCall EXCEPT ![t] = FALSE]
  /\ UNCHANGED <<trueReturns, tableVars, dhtVars>>

\* addNode(const IdentityEx &identity), entered directly (peer lists, lookup)
CallAddNode(t, id) ==
  /\ pc[t] = "idle"
  /\ pc' = [pc EXCEPT ![t] = "addNode"]
  /\ arg' = [arg EXCEPT ![t] = id]
  /\ absentAtCall' = [absentAtCall EXCEPT ![t] =
       FindNode(m_nodes_, IdentHash(id)) = NoNode]
  /\ UNCHANGED <<ret, trueReturns, tableVars, dhtVars>>

\* findNode under the mutex, then the comparison with the local destination
AddNodeFind(t) ==
  /\ pc[t] = "addNode"
  /\ IF AddNodeCheck(m_nodes_, arg[t]) = "insert"
     THEN /\ pc' = [pc EXCEPT ![t] = "insert"]
          /\ UNCHANGED ret
     ELSE /\ pc' = [pc EXCEPT ![t] = "done"]
          /\ ret' = [ret EXCEPT ![t] = FALSE]
  /\ UNCHANGED <<arg, absentAtCall, trueReturns, tableVars, dhtVars>>

\* the insertion under the mutex; its .second is the return value
AddNodeInsert(t) ==
  /\ pc[t] = "insert"
  /\ LET r == MapInsert(m_nodes_, NewNode(arg[t]))
     IN /\ m_nodes_' = r.map
        /\ ret' = [ret EXCEPT ![t] = r.second]
        /\ trueReturns' =
             IF r.second /\ trueReturns[arg[t]] < 2
             THEN [trueReturns EXCEPT ![arg[t]] = @ + 1]
             ELSE trueReturns
  /\ pc' = [pc EXCEPT ![t] = "done"]
  /\ UNCHANGED <<arg, absentAtCall, started_, nodesFile, loadResult, dhtVars>>

\* the caller takes the result
AddNodeReturn(t) ==
  /\ pc[t] = "done"
  /\ pc' = [pc EXCEPT ![t] = "idle"]
  /\ arg' = [arg EXCEPT ![t] = NoIdent]
  /\ ret' = [ret EXCEPT ![t] = FALSE]
  /\ absentAtCall' = [absentAtCall EXCEPT ![t] = FALSE]
  /\ UNCHANGED <<trueReturns, tableVars, dhtVars>>

(***************************************************************************)
(* start, stop, loadNodes, writeNodes                                      *)
(***************************************************************************)
RECURSIVE AddBootstrap(_, _)
\* loadNodes, lines 953-959: addNode(bootstrap_address) for every address.
AddBootstrap(map, addrs) ==
  IF addrs = <<>> THEN map
  ELSE LET id == FromBase64(Head(addrs))
       IN IF id # NoIdent /\ AddNodeCheck(map, id) = "insert"
          THEN AddBootstrap(MapInsert(map, NewNode(id)).map, Tail(addrs))
          ELSE AddBootstrap(map, Tail(addrs))

\* loadNodes: the table afterwards and the value returned
loadNodes(map, file, addrs) ==
  LET ids == [i \in 1..Len(readNodes(file)) |-> FromBase64(readNodes(file)[i])]
      loaded == InsertAll(map, ids)
  IN IF ids # <<>> /\ Len(loaded) > Len(map)
     THEN [map |-> loaded, result |-> TRUE]
     ELSE IF addrs # <<>>
          THEN [map |-> AddBootstrap(loaded, addrs), result |-> TRUE]
          ELSE [map |-> loaded, result |-> FALSE]

\* DHTworker::start, reading nodes.txt and the option bootstrap.address
Start(file, addrs) ==
  /\ ~started_
  /\ LET r == loadNodes(m_nodes_, file, addrs)
     IN /\ m_nodes_' = r.map
        /\ loadResult' = IF r.result THEN "true" ELSE "false"
  /\ started_' = TRUE
  /\ UNCHANGED <<nodesFile, callerVars, dhtVars>>

\* DHTworker::stop
Stop ==
  /\ started_
  /\ started_' = FALSE
  /\ UNCHANGED <<m_nodes_, nodesFile, loadResult, callerVars, dhtVars>>

\* one round of DHTworker::run: writeNodes
WriteNodes ==
  /\ started_
  /\ nodesFile # FileOfNodes(m_nodes_)
  /\ nodesFile' = FileOfNodes(m_nodes_)
  /\ UNCHANGED <<m_nodes_, started_, loadResult, callerVars, dhtVars>>

\* nodes.txt as start finds it: at the first start whatever was left there,
\* afterwards what the ticker of this process wrote last.
FilesAtStart == IF loadResult = "none" THEN ForeignFiles ELSE {nodesFile}

(***************************************************************************)
(* SpecTable                                                               *)
(***************************************************************************)
InitTable ==
  /\ m_nodes_ = <<>>
  /\ started_ = FALSE
  /\ nodesFile = AbsentFile
  /\ loadResult = "none"
  /\ pc = [t \in Threads |-> "idle"]
  /\ arg = [t \in Threads |-> NoIdent]
  /\ ret = [t \in Threads |-> FALSE]
  /\ absentAtCall = [t \in Threads |-> FALSE]
  /\ trueReturns = [id \in Identities |-> 0]
  /\ runningBatches = {}
  /\ batches = [b \in {"lookup", "verb"} |-> [packets |-> {}, responses |-> {}]]
  /\ dht_storage_ = [c \in {"I", "E", "C"} |-> [k \in 1..NumKeys |-> <<>>]]
  /\ rx = <<>>
  /\ VerbIdle
  /\ peerList = NoPeerList
  /\ MailIdle
  /\ TaskIdle

NextTable ==
  \/ \E t \in Threads, dest \in TableDests : CallAddNodeStr(t, dest)
  \/ \E t \in Threads, id \in TableIds : CallAddNode(t, id)
  \/ \E t \in Threads : AddNodeFind(t)
  \/ \E t \in Threads : AddNodeInsert(t)
  \/ \E t \in Threads : AddNodeReturn(t)
  \/ \E file \in FilesAtStart, addrs \in BootstrapOptions : Start(file, addrs)
  \/ Stop
  \/ WriteNodes

SpecTable == InitTable /\ [][NextTable]_vars

TypeOKTable ==
  /\ \A i \in 1..Len(m_nodes_) : m_nodes_[i].ident \in Identities
  /\ started_ \in BOOLEAN
  /\ pc \in [Threads -> {"idle", "addNode", "insert", "done"}]
  /\ ret \in [Threads -> BOOLEAN]

(***************************************************************************)
(* Packets.  A payload is kept in parsed form: its tag byte, for a peer    *)
(* list its version and identities, for stored content its bytes.          *)
(***************************************************************************)
Keys == 1..NumKeys
Classes == {"I", "E", "C"}

\* an empty std::vector<uint8_t>
NoData == [tag |-> "", ver |-> 0, nodes |-> <<>>, bytes |-> <<>>]

\* pbote::PeerListPacketV4 / V5 ::toByte for the identities of a node list
PeerListData(ver, nodes) ==
  [tag |-> "L", ver |-> ver,
   nodes |-> [i \in 1..Len(nodes) |-> nodes[i].ident], bytes |-> <<>>]

\* bytes of a stored packet of a class
StoredData(class, bytes) ==
  [tag |-> class, ver |-> 0, nodes |-> <<>>, bytes |-> bytes]

\* std::vector::size of a payload: tag, peer-list header, identities, bytes
DataSize(d) ==
  (IF d.tag = "" THEN 0 ELSE 1)
  + (IF d.tag \in {"L", "P"} THEN 3 ELSE 0)
  + Len(d.nodes) * IdentFullLen
  + Len(d.bytes)

\* type tags that parseCommPacket knows
CommTypes == {"R", "K", "N", "A", "Q", "Y", "S", "D", "X", "F"}

NoPacket == [from |-> <<>>, type |-> "", ver |-> 0, cid |-> 0,
             dataType |-> "", key |-> 0, delAuth |-> 0, status |-> "",
             data |-> NoData]

\* pbote::parseCommPacket: nullptr unless the prefix and the type tag are known
parseCommPacket(dgram) ==
  IF dgram.prefixOK /\ dgram.type \in CommTypes
  THEN [from |-> dgram.from, type |-> dgram.type, ver |-> dgram.ver,
        cid |-> dgram.cid, dataType |-> dgram.dataType, key |-> dgram.key,
        delAuth |-> dgram.delAuth, status |-> dgram.status,
        data |-> dgram.data]
  ELSE NoPacket

\* A response whose cid field is left as it was constructed.
ResponseCidUnset(packet, status, data) ==
  [to |-> packet.from, cid |-> 0, status |-> status,
   length |-> DataSize(data) % 65536, data |-> data]

\* pbote::ResponsePacket answering a request, as handed to context.send
Response(packet, status, data) ==
  [to |-> packet.from, cid |-> packet.cid, status |-> status,
   length |-> DataSize(data) % 65536, data |-> data]

(***************************************************************************)
(* BoteContext and PacketBatch.                                            *)
(***************************************************************************)
BatchIds == {"lookup", "verb"}

NewBatch == [packets |-> {}, responses |-> {}]

BatchCids(b) == {q.cid : q \in b.packets}

\* PacketBatch::addPacket: a CID is added to a batch once only
addPacket(b, cid, dest) ==
  IF cid \in BatchCids(b) THEN b
  ELSE [b EXCEPT !.packets = @ \cup {[cid |-> cid, dest |-> dest]}]

\* PacketBatch::addResponse: the map from CID to response packet
addResponse(b, packet) ==
  [b EXCEPT !.responses = {r \in @ : r.cid # packet.cid} \cup {packet}]

\* PacketBatch::responseCount
responseCount(b) == Cardinality(b.responses)

RECURSIVE ByCid(_)
\* the packets of a set in the order of their CIDs
ByCid(packets) ==
  IF packets = {} THEN <<>>
  ELSE LET first == CHOOSE r \in packets : \A o \in packets : r.cid <= o.cid
       IN <<first>> \o ByCid(packets \ {first})

\* PacketBatch::getResponses
getResponses(b) == ByCid(b.responses)

\* the registered batches that hold a request with the CID
BatchesOfCid(running, bts, cid) ==
  {b \in running : cid \in BatchCids(bts[b])}

\* BoteContext::receive: hands the packet to the registered batch that holds
\* its CID; true iff there was one
contextReceive(packet, running, bts) ==
  LET hit == BatchesOfCid(running, bts, packet.cid)
  IN IF hit = {}
     THEN [ret |-> FALSE, to |-> {}, batches |-> bts]
     ELSE LET b == CHOOSE x \in hit : TRUE
          IN [ret |-> TRUE, to |-> {b},
              batches |-> [bts EXCEPT ![b] = addResponse(@, packet)]]

(***************************************************************************)
(* The content store behind dht_storage_.                                  *)
(***************************************************************************)
getIndex(sto, key) == sto["I"][key]
getEmail(sto, key) == sto["E"][key]
getContact(sto, key) == sto["C"][key]

(***************************************************************************)
(* Server-side handlers of DHTworker.  Each gives the node table it leaves *)
(* and the packets it passes to context.send.                              *)
(***************************************************************************)
\* addNode(const std::string &) run to its end: the table and the result
addNodeDest(map, dest) ==
  LET id == FromBase64(dest)
  IN IF id # NoIdent /\ AddNodeCheck(map, id) = "insert"
     THEN MapInsert(map, NewNode(id))
     ELSE [map |-> map, second |-> FALSE]

\* getAllNodes
getAllNodes(map) == map

\* A retrieval that reads every class from the index store.
RetrieveLookupIndexOnly(sto, dataType, key) == getIndex(sto, key)

\* the switch of receiveRetrieveRequest over the data type
RetrieveLookup(sto, dataType, key) ==
  CASE dataType = "I" -> getIndex(sto, key)
    [] dataType = "E" -> getEmail(sto, key)
    [] dataType = "C" -> getContact(sto, key)
    [] OTHER -> NoData

\* DHTworker::receiveRetrieveRequest
receiveRetrieveRequest(packet, map, sto) ==
  LET found == RetrieveLookup(sto, packet.dataType, packet.key)
  IN [map |-> addNodeDest(map, packet.from).map,
      sent |-> IF packet.dataType \in {"I", "E", "C"}
               THEN IF found = NoData
                    THEN <<Response(packet, "NO_DATA_FOUND", NoData)>>
                    ELSE <<Response(packet, "OK", found)>>
               ELSE <<Response(packet, "INVALID_PACKET", NoData)>>]

\* DHTworker::receiveDeletionQuery
receiveDeletionQuery(packet, map, sto) ==
  [map |-> addNodeDest(map, packet.from).map,
   sent |-> <<Response(packet, "NO_DATA_FOUND", NoData)>>]

\* A store handler that leaves the sender out of the node table.
receiveStoreRequestNoAddNode(packet, map, sto) ==
  [map |-> map,
   sent |-> <<Response(packet, "NO_DISK_SPACE", NoData)>>]

\* DHTworker::receiveStoreRequest
receiveStoreRequest(packet, map, sto) ==
  [map |-> addNodeDest(map, packet.from).map,
   sent |-> <<Response(packet, "NO_DISK_SPACE", NoData)>>]

\* DHTworker::receiveEmailPacketDeleteRequest
receiveEmailPacketDeleteRequest(packet, map, sto) ==
  [map |-> addNodeDest(map, packet.from).map,
   sent |-> <<Response(packet, "NO_DATA_FOUND", NoData)>>]

\* DHTworker::receiveIndexPacketDeleteRequest
receiveIndexPacketDeleteRequest(packet, map, sto) ==
  [map |-> addNodeDest(map, packet.from).map,
   sent |-> <<Response(packet, "NO_DATA_FOUND", NoData)>>]

\* DHTworker::receiveFindClosePeers
receiveFindClosePeers(packet, map, sto) ==
  LET table == addNodeDest(map, packet.from).map
      closest_nodes == getAllNodes(table)
  IN [map |-> table,
      sent |-> IF closest_nodes = <<>>
               THEN <<Response(packet, "GENERAL_ERROR", NoData)>>
               ELSE IF packet.ver = 4
                    THEN <<Response(packet, "OK",
                                    PeerListData(4, closest_nodes))>>
                    ELSE IF packet.ver = 5
                         THEN <<Response(packet, "OK",
                                         PeerListData(5, closest_nodes))>>
                         ELSE <<Response(packet, "OK", NoData)>>]

(***************************************************************************)
(* IncomingRequest: the handler registered for every packet type, and      *)
(* handleNewPacket.                                                        *)
(***************************************************************************)
NotHandled(map) == [ret |-> FALSE, dht |-> "none", map |-> map, sent |-> <<>>]

Handled(name, r) == [ret |-> TRUE, dht |-> name, map |-> r.map, sent |-> r.sent]

\* the version test of IncomingRequest::receiveFindClosePeersRequest
FindClosePeersVersionOK(packet) ==
  packet.ver = 4 /\ packet.type = "F"

\* IncomingRequest::IncomingRequest: the handler registered per packet type
incomingPacketHandlers_ ==
  [type \in {"R", "K", "N", "A", "Q", "Y", "S", "D", "X", "F"} |->
     CASE type = "R" -> "receiveRelayRequest"
       [] type = "K" -> "receiveRelayReturnRequest"
       [] type = "N" -> "receiveResponsePkt"
       [] type = "A" -> "receivePeerListRequest"
       [] type = "Q" -> "receiveRetrieveRequest"
       [] type = "Y" -> "receiveDeletionQueryRequest"
       [] type = "S" -> "receiveStoreRequest"
       [] type = "D" -> "receiveEmailPacketDeleteRequest"
       [] type = "X" -> "receiveIndexPacketDeleteRequest"
       [] type = "F" -> "receiveFindClosePeersRequest"]

\* (this->*handler)(packet) for a handler of IncomingRequest.  The relay
\* peers worker that receivePeerListRequest and receiveResponsePkt call for
\* peer lists is outside this model: only their return value is kept.
IncomingHandler(handler, packet, map, sto) ==
  CASE handler \in {"receiveRelayRequest", "receiveRelayReturnRequest"} ->
         [ret |-> TRUE, dht |-> "none", map |-> map, sent |-> <<>>]
    [] handler = "receiveResponsePkt" ->
         [ret |-> packet.data.tag \in {"I", "E", "C"}
                  \/ (packet.data.tag \in {"L", "P"} /\ packet.ver \in {4, 5}),
          dht |-> "none", map |-> map, sent |-> <<>>]
    [] handler = "receivePeerListRequest" ->
         [ret |-> packet.ver \in {4, 5}, dht |-> "none", map |-> map,
          sent |-> <<>>]
    [] handler = "receiveRetrieveRequest" ->
         IF packet.ver = 4 /\ packet.type = "Q"
         THEN Handled("receiveRetrieveRequest",
                      receiveRetrieveRequest(packet, map, sto))
         ELSE NotHandled(map)
    [] handler = "receiveDeletionQueryRequest" ->
         IF packet.ver = 4 /\ packet.type \in {"Y", "L"}
         THEN Handled("receiveDeletionQuery",
                      receiveDeletionQuery(packet, map, sto))
         ELSE NotHandled(map)
    [] handler = "receiveStoreRequest" ->
         IF packet.ver = 4 /\ packet.type = "S"
         THEN Handled("receiveStoreRequest",
                      receiveStoreRequest(packet, map, sto))
         ELSE NotHandled(map)
    [] handler = "receiveEmailPacketDeleteRequest" ->
         IF packet.ver = 4 /\ packet.type = "D"
         THEN Handled("receiveEmailPacketDeleteRequest",
                      receiveEmailPacketDeleteRequest(packet, map, sto))
         ELSE NotHandled(map)
    [] handler = "receiveIndexPacketDeleteRequest" ->
         IF packet.ver = 4 /\ packet.type = "X"
         THEN Handled("receiveIndexPacketDeleteRequest",
                      receiveIndexPacketDeleteRequest(packet, map, sto))
         ELSE NotHandled(map)
    [] handler = "receiveFindClosePeersRequest" ->
         IF FindClosePeersVersionOK(packet)
         THEN Handled("receiveFindClosePeers",
                      receiveFindClosePeers(packet, map, sto))
         ELSE NotHandled(map)

\* what one run of handleNewPacket does
Outcome(parsed, to, handler, h, bts) ==
  [parsed |-> parsed, toBatch |-> to, handler |-> handler, dht |-> h.dht,
   ret |-> h.ret, sent |-> h.sent, map |-> h.map, batches |-> bts]

\* A dispatcher that goes on to the handler after a batch took the packet.
handleNewPacketFallThrough(dgram, running, bts, map, sto) ==
  LET packet == parseCommPacket(dgram)
      rcv == contextReceive(packet, running, bts)
  IN IF packet = NoPacket
     THEN Outcome(FALSE, {}, "none", NotHandled(map), bts)
     ELSE IF packet.type \in DOMAIN incomingPacketHandlers_
          THEN Outcome(TRUE, rcv.to, incomingPacketHandlers_[packet.type],
                       IncomingHandler(incomingPacketHandlers_[packet.type],
                                       packet, map, sto),
                       rcv.batches)
          ELSE Outcome(TRUE, rcv.to, "none", NotHandled(map), rcv.batches)

\* A dispatcher that reports a datagram it could not parse as handled.
handleNewPacketUnparsedTrue(dgram, running, bts, map, sto) ==
  LET packet == parseCommPacket(dgram)
      rcv == contextReceive(packet, running, bts)
      taken == [ret |-> TRUE, dht |-> "none", map |-> map, sent |-> <<>>]
  IN IF packet = NoPacket
     THEN Outcome(FALSE, {}, "none", taken, bts)
     ELSE IF rcv.ret
          THEN Outcome(TRUE, rcv.to, "none", taken, rcv.batches)
          ELSE IF packet.type \in DOMAIN incomingPacketHandlers_
               THEN Outcome(TRUE, {}, incomingPacketHandlers_[packet.type],
                            IncomingHandler(incomingPacketHandlers_[packet.type],
                                            packet, map, sto),
                            bts)
               ELSE Outcome(TRUE, {}, "none", NotHandled(map), bts)

\* IncomingRequest::handleNewPacket
handleNewPacket(dgram, running, bts, map, sto) ==
  LET packet == parseCommPacket(dgram)
      rcv == contextReceive(packet, running, bts)
  IN IF packet = NoPacket
     THEN Outcome(FALSE, {}, "none", NotHandled(map), bts)
     ELSE IF rcv.ret
          THEN Outcome(TRUE, rcv.to, "none",
                       [ret |-> TRUE, dht |-> "none", map |-> map,
                        sent |-> <<>>], rcv.batches)
          ELSE IF packet.type \in DOMAIN incomingPacketHandlers_
               THEN Outcome(TRUE, {}, incomingPacketHandlers_[packet.type],
                            IncomingHandler(incomingPacketHandlers_[packet.type],
                                            packet, map, sto),
                            bts)
               ELSE Outcome(TRUE, {}, "none", NotHandled(map), bts)

(***************************************************************************)
(* SpecDispatch: the packet dispatcher thread taking datagrams from the    *)
(* receive queue while verbs register and remove their batches.            *)
(***************************************************************************)
\* BoteContext::send(batch): registers the batch and queues its packets
contextSend(running, b) == running \cup {b}

\* BoteContext::removeBatch
removeBatch(running, b) == running \ {b}

NoRx == [dgram |-> NoPacket, parsed |-> FALSE,
         toBatch |-> {}, handler |-> "none", dht |-> "none", ret |-> FALSE,
         sent |-> <<>>]

\* handleNewPacket on the batches and the node table
DispatchTurn(dgram) ==
  LET o == handleNewPacket(dgram, runningBatches, batches, m_nodes_,
                           dht_storage_)
  IN /\ batches' = o.batches
     /\ m_nodes_' = o.map

\* one turn of RequestHandler::run: GetNext, then handleNewPacket
HandleNewPacket(dgram) ==
  LET o == handleNewPacket(dgram, runningBatches, batches, m_nodes_,
                           dht_storage_)
  IN /\ DispatchTurn(dgram)
     /\ rx' = [dgram |-> [k \in DOMAIN NoPacket |-> dgram[k]],
               parsed |-> o.parsed, toBatch |-> o.toBatch,
               handler |-> o.handler, dht |-> o.dht, ret |-> o.ret,
               sent |-> o.sent]
     /\ UNCHANGED <<started_, nodesFile, loadResult, callerVars,
                    runningBatches, restVars, verbVars>>

\* datagrams of the receive queue
Dgram(from, ok, type, ver, cid, dataType, key, status, data) ==
  [from |-> from, prefixOK |-> ok, type |-> type, ver |-> ver, cid |-> cid,
   dataType |-> dataType, key |-> key, delAuth |-> 0, status |-> status,
   data |-> data]

\* SHA-256 on the delete-auth tokens: an injective map that moves every
\* token
Sha256(x) == (x * 5 + 8) % 11

\* the delete-auth tokens that requests bear
DelAuths == {1, 2}

\* the delete-verification hash held in a stored email packet
DeleteHashOf(stored) == stored.bytes[1]

\* an email-packet delete request: the key and the delete-auth token
DeleteDgram(from, cid, key, delAuth) ==
  [Dgram(from, TRUE, "D", 4, cid, "", key, "", NoData)
     EXCEPT !.delAuth = delAuth]

\* the batches of two verbs in flight, one request each
DispatchBatches ==
  [b \in BatchIds |->
     addPacket(NewBatch, IF b = "lookup" THEN 1 ELSE 2, ToBase64(1))]

\* a verb thread fills a new batch and reaches context.send(batch)
VerbSendsBatch(b) ==
  /\ b \notin runningBatches
  /\ batches' = [batches EXCEPT ![b] = DispatchBatches[b]]
  /\ runningBatches' = contextSend(runningBatches, b)
  /\ UNCHANGED <<tableVars, callerVars, restVars, rx, verbVars>>

\* a verb thread reaches context.removeBatch(batch) and drops the batch
VerbRemovesBatch(b) ==
  /\ b \in runningBatches
  /\ runningBatches' = removeBatch(runningBatches, b)
  /\ batches' = [batches EXCEPT ![b] = NewBatch]
  /\ UNCHANGED <<tableVars, callerVars, restVars, rx, verbVars>>

\* a CID that no batch holds
StrayCid == 0

\* a store holding an index packet under key 1 and an email packet under
\* the last key, whose delete-verification hash is that of token 1
SampleStorage ==
  [c \in Classes |->
     [k \in Keys |->
        IF c = "I" /\ k = 1 THEN StoredData("I", <<1>>)
        ELSE IF c = "E" /\ k = NumKeys
             THEN StoredData("E", <<Sha256(1), 3>>)
             ELSE NoData]]

\* requests under a CID of no batch; a retrieve request of version 5 is
\* sent for one class and key only
RequestDgrams ==
  {Dgram(from, TRUE, type, ver, StrayCid, "", 0, "", NoData) :
     from \in TableDests, type \in {"Y", "S", "D", "X", "F"}, ver \in {4, 5}}
  \cup
  {Dgram(from, TRUE, "Q", 4, StrayCid, dataType, key, "", NoData) :
     from \in TableDests, dataType \in Classes \cup {"Z"}, key \in Keys}
  \cup
  {Dgram(ToBase64(1), TRUE, "Q", 5, StrayCid, "I", 1, "", NoData)}
  \cup
  {DeleteDgram(ToBase64(1), StrayCid, key, delAuth) :
     key \in Keys, delAuth \in DelAuths}

\* responses under a CID of no batch
ResponseDgrams ==
  {Dgram(ToBase64(1), TRUE, "N", ver, StrayCid, "", 0, "OK", data) :
     ver \in {4, 5},
     data \in {NoData, PeerListData(5, TableOf({1})),
               StoredData("E", <<2, 3>>)}}

\* relay packets, peer-list requests and datagrams that do not parse
OtherDgrams ==
  {Dgram(ToBase64(1), TRUE, type, 4, StrayCid, "", 0, "", NoData) :
     type \in {"R", "K", "A", "?"}}
  \cup {Dgram(ToBase64(1), FALSE, "A", 4, StrayCid, "", 0, "", NoData)}

\* packets of the asked peer under the CID of a batch: its response, or a
\* request that happens to bear the CID
BatchCidDgrams ==
  {Dgram(ToBase64(1), TRUE, type, 4, cid, "", 0, "", NoData) :
     type \in {"N", "F"},
     cid \in UNION {BatchCids(DispatchBatches[b]) : b \in BatchIds}}

InboundDgrams ==
  RequestDgrams \cup ResponseDgrams \cup OtherDgrams \cup BatchCidDgrams

InitDispatch ==
  /\ m_nodes_ \in {<<>>, TableOf({NumPeers})}
  /\ started_ = TRUE
  /\ nodesFile = AbsentFile
  /\ loadResult = "true"
  /\ pc = [t \in Threads |-> "idle"]
  /\ arg = [t \in Threads |-> NoIdent]
  /\ ret = [t \in Threads |-> FALSE]
  /\ absentAtCall = [t \in Threads |-> FALSE]
  /\ trueReturns = [id \in Identities |-> 0]
  /\ runningBatches = {}
  /\ batches = [b \in BatchIds |-> NewBatch]
  /\ dht_storage_ = SampleStorage
  /\ rx = NoRx
  /\ VerbIdle
  /\ peerList = NoPeerList
  /\ MailIdle
  /\ TaskIdle

NextDispatch ==
  \/ \E dgram \in InboundDgrams : HandleNewPacket(dgram)
  \/ \E b \in BatchIds : VerbSendsBatch(b)
  \/ \E b \in BatchIds : VerbRemovesBatch(b)

SpecDispatch == InitDispatch /\ [][NextDispatch]_vars

(***************************************************************************)
(* SpecVerb: the client verbs find and store with closestNodesLookupTask,  *)
(* run by one worker thread while the dispatcher thread takes the answers  *)
(* of the asked nodes and the requests of other nodes.                     *)
(***************************************************************************)
\* the CIDs in use: those of active_requests and of the batches
UsedCids(active, bts) ==
  {r.cid : r \in active} \cup UNION {BatchCids(bts[b]) : b \in BatchIds}

\* context.random_cid: a CID that is not in use
FreshCid(used) == CHOOSE c \in 1..(Cardinality(used) + 1) : c \notin used

RECURSIVE AddRequests(_, _, _, _)
\* the loops that fill a batch: one request with a CID of its own per node
\* of the list; reqs pairs every CID with the node asked
AddRequests(b, nodes, used, reqs) ==
  IF nodes = <<>> THEN [batch |-> b, reqs |-> reqs]
  ELSE LET cid == FreshCid(used)
       IN AddRequests(addPacket(b, cid, ToBase64(Head(nodes))), Tail(nodes),
                      used \cup {cid},
                      reqs \cup {[cid |-> cid, node |-> Head(nodes)]})

\* the identities of a list of nodes
IdentsOf(nodes) == [i \in 1..Len(nodes) |-> nodes[i].ident]

\* A peer-list reader that stops after the first entry.
receivePeerListFirstOnly(idents, map, added) ==
  IF idents = <<>> \/ AddNodeCheck(map, Head(idents)) # "insert"
  THEN [map |-> map, nodes |-> added]
  ELSE [map |-> MapInsert(map, NewNode(Head(idents))).map,
        nodes |-> Append(added, Head(idents))]

RECURSIVE receivePeerList(_, _, _)
\* receivePeerListV4, receivePeerListV5: every listed identity goes through
\* addNode; the result lists those that addNode inserted
receivePeerList(idents, map, added) ==
  IF idents = <<>> THEN [map |-> map, nodes |-> added]
  ELSE IF AddNodeCheck(map, Head(idents)) = "insert"
            /\ MapInsert(map, NewNode(Head(idents))).second
       THEN receivePeerList(Tail(idents),
                            MapInsert(map, NewNode(Head(idents))).map,
                            Append(added, Head(idents)))
       ELSE receivePeerList(Tail(idents), map, added)

RECURSIVE ParseResponses(_, _, _)
\* closestNodesLookupTask, the loop over the responses after the rounds
ParseResponses(resps, map, closest) ==
  IF resps = <<>> THEN [map |-> map, nodes |-> closest]
  ELSE LET response == Head(resps)
           listed == /\ response.type = "N"
                     /\ response.status = "OK"
                     /\ DataSize(response.data) >= 4
                     /\ response.data.tag \in {"L", "P"}
                     /\ response.data.ver \in {4, 5}
           got == IF listed
                  THEN receivePeerList(response.data.nodes, map, <<>>)
                  ELSE [map |-> map, nodes |-> <<>>]
       IN ParseResponses(Tail(resps), got.map, closest \o got.nodes)

\* A lookup loop that looks at the time only.
LookupContinuesTimeOnly(active, duration) ==
  duration < CLOSEST_NODES_LOOKUP_TIMEOUT

\* A loop condition without the time limit.
LookupContinuesNoTimeout(active, duration) == active # {}

\* the loop condition of closestNodesLookupTask
LookupContinues(active, duration) ==
  active # {} /\ duration < CLOSEST_NODES_LOOKUP_TIMEOUT

\* A lookup that returns without removing its batch.
LookupEndKeep(running) == running

\* closestNodesLookupTask after its loops: context.removeBatch(batch)
LookupEnd(running) == removeBatch(running, "lookup")

\* A node count test that lets two nodes pass.
NotEnoughNodesUnderTwo(nodes) == Len(nodes) < 2

\* closestNodes.size() < MIN_CLOSEST_NODES in find and store
NotEnoughNodes(nodes) == Len(nodes) < MIN_CLOSEST_NODES

\* find and store: the nodes of the table appended to a short lookup result
Augmented(closest, map) ==
  IF NotEnoughNodes(closest) THEN closest \o IdentsOf(map) ELSE closest

\* A retry loop that counts its rounds only.
RetryGuardCounterOnly(count, cnt) == cnt < 5

\* the condition of the retry loop of find and store
RetryGuard(count, cnt) == count < 1 /\ cnt < 5

\* what find and store return: find the responses, store their senders
VerbResult(kind, b) ==
  IF kind = "find" THEN getResponses(b)
  ELSE [i \in 1..Len(getResponses(b)) |-> getResponses(b)[i].from]

\* find(key, type, exhaustive) or store(hash, type, packet) is called
CallVerb(kind, exhaustive) ==
  /\ vpc = "idle"
  /\ calls < MaxCalls
  /\ calls' = calls + 1
  /\ call' = [kind |-> kind, exhaustive |-> exhaustive]
  /\ vpc' = "lookup_start"
  /\ UNCHANGED <<tableVars, callerVars, runningBatches, batches,
                 restVars, rx, active_requests, closestNodes, responses,
                 exec_duration, counter, result, waits, sends,
                 waitHadResponse, usedTable, lookupCount>>

\* closestNodesLookupTask up to its loop: a request per node of the table,
\* kept in active_requests and in the batch
LookupStart ==
  /\ vpc = "lookup_start"
  /\ LET req_nodes == getAllNodes(m_nodes_)
         built == AddRequests(NewBatch, IdentsOf(req_nodes),
                              UsedCids(active_requests, batches), {})
     IN /\ active_requests' = active_requests \cup built.reqs
        /\ batches' = [batches EXCEPT !["lookup"] = built.batch]
  /\ exec_duration' = 0
  /\ vpc' = "lookup_loop"
  /\ UNCHANGED <<tableVars, callerVars, runningBatches, restVars, rx,
                 call, calls, closestNodes, responses, counter, result,
                 waits, sends, waitHadResponse, usedTable, lookupCount>>

\* the loop test of closestNodesLookupTask and, in the loop, context.send
LookupLoop ==
  /\ vpc = "lookup_loop"
  /\ IF LookupContinues(active_requests, exec_duration)
     THEN /\ runningBatches' = contextSend(runningBatches, "lookup")
          /\ vpc' = "lookup_wait"
     ELSE /\ vpc' = "lookup_parse"
          /\ UNCHANGED runningBatches
  /\ UNCHANGED <<tableVars, callerVars, batches, restVars, rx, call,
                 calls, active_requests, closestNodes, responses,
                 exec_duration, counter, result, waits, sends,
                 waitHadResponse, usedTable, lookupCount>>

\* waitLast(RESPONSE_TIMEOUT) returns and the round goes on to its end: the
\* answered requests leave active_requests; a round without responses
\* removes the batch; MIN_CLOSEST_NODES responses end the loop
LookupWaitEnds ==
  /\ vpc = "lookup_wait"
  /\ responses' = getResponses(batches["lookup"])
  /\ waits' = waits + 1
  /\ exec_duration' = exec_duration + RESPONSE_TIMEOUT
  /\ IF responses' # <<>>
     THEN /\ active_requests' =
               {r \in active_requests :
                  \A i \in 1..Len(responses') : responses'[i].cid # r.cid}
          /\ UNCHANGED runningBatches
          /\ vpc' = IF Len(responses') >= MIN_CLOSEST_NODES
                    THEN "lookup_parse" ELSE "lookup_loop"
     ELSE /\ runningBatches' = removeBatch(runningBatches, "lookup")
          /\ vpc' = "lookup_loop"
          /\ UNCHANGED active_requests
  /\ UNCHANGED <<tableVars, callerVars, batches, restVars, rx, call,
                 calls, closestNodes, counter, result, sends,
                 waitHadResponse, usedTable, lookupCount>>

\* closestNodesLookupTask after the loop: the peer lists of the responses
\* are parsed into the table, the batch is removed and the nodes that were
\* new are returned (addNode for each of them finds it in the table)
LookupParse ==
  /\ vpc = "lookup_parse"
  /\ LET parsed == ParseResponses(responses, m_nodes_, <<>>)
     IN /\ m_nodes_' = parsed.map
        /\ closestNodes' = parsed.nodes
        /\ lookupCount' = Len(parsed.nodes)
  /\ runningBatches' = LookupEnd(runningBatches)
  /\ batches' = [batches EXCEPT !["lookup"] = NewBatch]
  /\ responses' = <<>>
  /\ vpc' = "verb_nodes"
  /\ UNCHANGED <<started_, nodesFile, loadResult, callerVars, restVars,
                 rx, call, calls, active_requests, exec_duration, counter,
                 result, waits, sends, waitHadResponse, usedTable>>

\* find and store after the lookup: the node count test with the
\* augmentation, then either the return of nothing or a request per node
\* and the first context.send
VerbNodes ==
  /\ vpc = "verb_nodes"
  /\ usedTable' = NotEnoughNodes(closestNodes)
  /\ closestNodes' = Augmented(closestNodes, m_nodes_)
  /\ IF NotEnoughNodes(closestNodes')
     THEN /\ result' = <<>>
          /\ vpc' = "returned"
          /\ UNCHANGED <<batches, runningBatches, sends>>
     ELSE /\ batches' =
               [batches EXCEPT !["verb"] =
                  AddRequests(NewBatch, closestNodes',
                              UsedCids(active_requests, batches), {}).batch]
          /\ runningBatches' = contextSend(runningBatches, "verb")
          /\ sends' = 1
          /\ vpc' = "verb_wait"
          /\ UNCHANGED result
  /\ UNCHANGED <<tableVars, callerVars, restVars, rx, call, calls,
                 active_requests, responses, exec_duration, counter, waits,
                 waitHadResponse, lookupCount>>

\* waitLast or waitFist of find and store returns; in the retry loop the
\* counter goes up
VerbWaitEnds ==
  /\ vpc = "verb_wait"
  /\ waits' = waits + 1
  /\ waitHadResponse' = (waitHadResponse \/ responseCount(batches["verb"]) >= 1)
  /\ counter' = IF sends > 1 THEN counter + 1 ELSE counter
  /\ vpc' = "verb_loop"
  /\ UNCHANGED <<tableVars, callerVars, runningBatches, batches,
                 restVars, rx, call, calls, active_requests,
                 closestNodes, responses, exec_duration, result, sends,
                 usedTable, lookupCount>>

\* the test of the retry loop: the removeBatch of a retry, or the last
\* removeBatch and the return
VerbLoop ==
  /\ vpc = "verb_loop"
  /\ IF RetryGuard(responseCount(batches["verb"]), counter)
     THEN /\ runningBatches' = removeBatch(runningBatches, "verb")
          /\ vpc' = "verb_resend"
          /\ UNCHANGED result
     ELSE /\ runningBatches' = removeBatch(runningBatches, "verb")
          /\ result' = VerbResult(call.kind, batches["verb"])
          /\ vpc' = "returned"
  /\ UNCHANGED <<tableVars, callerVars, batches, restVars, rx, call,
                 calls, active_requests, closestNodes, responses,
                 exec_duration, counter, waits, sends, waitHadResponse,
                 usedTable, lookupCount>>

\* context.send(batch) of a retry
VerbResend ==
  /\ vpc = "verb_resend"
  /\ runningBatches' = contextSend(runningBatches, "verb")
  /\ sends' = sends + 1
  /\ vpc' = "verb_wait"
  /\ UNCHANGED <<tableVars, callerVars, batches, restVars, rx, call,
                 calls, active_requests, closestNodes, responses,
                 exec_duration, counter, result, waits, waitHadResponse,
                 usedTable, lookupCount>>

\* the caller has the result; the batches and the locals of the call are gone
VerbReturn ==
  /\ vpc = "returned"
  /\ vpc' = "idle"
  /\ batches' = [b \in BatchIds |-> NewBatch]
  /\ call' = NoCall
  /\ closestNodes' = <<>>
  /\ responses' = <<>>
  /\ exec_duration' = 0
  /\ counter' = 0
  /\ result' = <<>>
  /\ waits' = 0
  /\ sends' = 0
  /\ waitHadResponse' = FALSE
  /\ usedTable' = FALSE
  /\ lookupCount' = 0
  /\ UNCHANGED <<tableVars, callerVars, runningBatches, restVars, rx,
                 calls, active_requests>>

\* what an asked node answers to a find-close-peers request if it answers:
\* node 1 lists MIN_CLOSEST_NODES other nodes, the others know no node
LookupAnswer(dest) ==
  IF dest = ToBase64(1)
  THEN [status |-> "OK",
        data |-> PeerListData(5, TableOf(2..(MIN_CLOSEST_NODES + 1)))]
  ELSE [status |-> "GENERAL_ERROR", data |-> NoData]

\* what an asked node answers to a retrieve or store request if it answers
VerbAnswer == [status |-> "OK", data |-> NoData]

\* the nodes that answer retrieve and store requests; the others are silent
AnsweringDests == {ToBase64(2)}

\* the datagrams that can arrive during a verb: an answer to a request of a
\* batch from the node asked, or the request of a node
VerbDgrams ==
  {Dgram(q.dest, TRUE, "N", 4, q.cid, "", 0, LookupAnswer(q.dest).status,
         LookupAnswer(q.dest).data) : q \in batches["lookup"].packets}
  \cup
  {Dgram(q.dest, TRUE, "N", 4, q.cid, "", 0, VerbAnswer.status,
         VerbAnswer.data) :
     q \in {x \in batches["verb"].packets : x.dest \in AnsweringDests}}
  \cup
  {Dgram(ToBase64(MIN_CLOSEST_NODES), TRUE, "F", 4, StrayCid, "", 0, "",
         NoData)}

\* one turn of RequestHandler::run while a verb is under way
VerbReceive(dgram) ==
  /\ DispatchTurn(dgram)
  /\ UNCHANGED <<started_, nodesFile, loadResult, callerVars,
                 runningBatches, restVars, rx, verbVars>>

InitVerb ==
  /\ m_nodes_ \in {TableOf(1..n) : n \in 0..MIN_CLOSEST_NODES}
  /\ started_ = TRUE
  /\ nodesFile = AbsentFile
  /\ loadResult = "true"
  /\ pc = [t \in Threads |-> "idle"]
  /\ arg = [t \in Threads |-> NoIdent]
  /\ ret = [t \in Threads |-> FALSE]
  /\ absentAtCall = [t \in Threads |-> FALSE]
  /\ trueReturns = [id \in Identities |-> 0]
  /\ runningBatches = {}
  /\ batches = [b \in BatchIds |-> NewBatch]
  /\ dht_storage_ = SampleStorage
  /\ rx = NoRx
  /\ VerbIdle
  /\ peerList = NoPeerList
  /\ MailIdle
  /\ TaskIdle

NextVerb ==
  \/ \E kind \in {"find", "store"}, exhaustive \in BOOLEAN :
       (kind = "store" => exhaustive) /\ CallVerb(kind, exhaustive)
  \/ LookupStart
  \/ LookupLoop
  \/ LookupWaitEnds
  \/ LookupParse
  \/ VerbNodes
  \/ VerbWaitEnds
  \/ VerbLoop
  \/ VerbResend
  \/ VerbReturn
  \/ \E dgram \in VerbDgrams : VerbReceive(dgram)

SpecVerb == InitVerb /\ [][NextVerb]_vars

(***************************************************************************)
(* SpecLookupLive: closestNodesLookupTask followed to its end.  The thread *)
(* of the caller runs on; every waitLast returns after RESPONSE_TIMEOUT at *)
(* the latest; responses arrive or do not.                                 *)
(***************************************************************************)
\* the steps of the thread inside closestNodesLookupTask
LookupThread ==
  \/ LookupStart
  \/ LookupLoop
  \/ LookupWaitEnds
  \/ LookupParse

NextLookup ==
  \/ \E kind \in {"find", "store"}, exhaustive \in BOOLEAN :
       (kind = "store" => exhaustive) /\ CallVerb(kind, exhaustive)
  \/ LookupStart
  \/ LookupLoop
  \/ LookupWaitEnds
  \/ LookupParse
  \/ \E dgram \in VerbDgrams : VerbReceive(dgram)

SpecLookupLive == InitVerb /\ [][NextLookup]_vars /\ WF_vars(LookupThread)

(***************************************************************************)
(* SpecPeerList: a list of nodes is encoded as receiveFindClosePeers does  *)
(* it and the bytes are decoded by receivePeerListV4 or receivePeerListV5  *)
(* on a node whose table is empty.  Identities are their bytes here.       *)
(***************************************************************************)
\* the DHT and the email worker at rest
DhtIdle ==
  /\ m_nodes_ = <<>>
  /\ started_ = TRUE
  /\ nodesFile = AbsentFile
  /\ loadResult = "true"
  /\ pc = [t \in Threads |-> "idle"]
  /\ arg = [t \in Threads |-> NoIdent]
  /\ ret = [t \in Threads |-> FALSE]
  /\ absentAtCall = [t \in Threads |-> FALSE]
  /\ trueReturns = [id \in Identities |-> 0]
  /\ runningBatches = {}
  /\ batches = [b \in BatchIds |-> NewBatch]
  /\ dht_storage_ = SampleStorage
  /\ rx = NoRx
  /\ VerbIdle

dhtCore == <<tableVars, callerVars, runningBatches, batches, dht_storage_,
             rx, verbVars>>

dhtAll == <<dhtCore, taskVars>>

\* the DHT, the peer list and the send thread
dhtMail == <<dhtCore, peerList, mailVars>>

\* what the check thread leaves alone, and what the threads of EmailWorker do
checkRest == <<dhtMail, workerVars, stopVars, resp, closestCall,
              mutexVars,
              lateVars>>
workerRest == <<dhtCore, peerList, mailFiles, outboxDir, sentDir, outbox,
                spc, loads, checkVars, stopVars, resp, closestCall,
              mutexVars,
              lateVars>>

\* what the threads that are stopped leave alone
stopRest == <<m_nodes_, loadResult, callerVars, runningBatches, batches,
              dht_storage_, rx, verbVars, peerList, mailVars, checkVars,
              workerVars, resp, closestCall,
              mutexVars,
              lateVars>>

\* what receiveResponsePkt leaves alone
respRest == <<dhtMail, checkVars, workerVars, stopVars, closestCall,
              mutexVars,
              lateVars>>

\* what the accesses to the node table leave alone
mutexRest == <<started_, nodesFile, loadResult, callerVars, runningBatches,
               batches, dht_storage_, rx, verbVars, peerList, mailVars,
               checkVars, workerVars, stopVars, resp, closestCall,
              lateVars>>

\* what getClosestNodes leaves alone
closestRest == <<dhtMail, checkVars, workerVars, stopVars, resp,
              mutexVars,
              lateVars>>

\* the state of the specifications above
oldVars == <<dhtMail, checkVars, workerVars, stopVars, resp, closestCall,
             mutexVars>>

\* the DHT, the email worker and the threads and functions above at rest
OldIdle ==
  /\ DhtIdle
  /\ peerList = NoPeerList
  /\ MailIdle
  /\ CheckIdle
  /\ WorkerIdle
  /\ StopIdle
  /\ FuncIdle
  /\ MutexIdle

markRest == <<oldVars, entryLoop, retrieval, lookupThreads>>

\* what the entry loop leaves alone
entryRest == <<oldVars, markCall, retrieval, lookupThreads>>

\* what the retrieval of a check round leaves alone
retrievalRest == <<oldVars, markCall, entryLoop, lookupThreads>>

\* what the concurrent lookups leave alone
lookupsRest == <<oldVars, markCall, entryLoop, retrieval>>

\* the two public keys at the head of every identity
KeysLen == 384

\* the certificate of an identity: the null certificate of the key types
\* that need none, or a key certificate with the two key types
NullCert == <<0, 0, 0>>
KeyCert == <<5, 0, 4, 0, 7, 0, 4>>

\* the key bytes of an identity
KeyBytes(id) == [j \in 1..KeysLen |-> (id * 16 + j) % 256]

\* IdentityEx::ToBuffer: the keys, then the certificate; the identities of
\* odd number bear the null certificate
ToBuffer(id) == KeyBytes(id) \o (IF id % 2 = 1 THEN NullCert ELSE KeyCert)

\* IdentityEx::GetFullLen
GetFullLen(id) == Len(ToBuffer(id))

\* IdentityEx::FromBuffer: the identity at the head of the buffer, its
\* length read from the certificate; <<>> (result 0) when the buffer is too
\* short for it
FromBuffer(buf) ==
  IF Len(buf) < IdentFullLen THEN <<>>
  ELSE LET certLen == buf[KeysLen + 2] * 256 + buf[KeysLen + 3]
       IN IF IdentFullLen + certLen <= Len(buf)
          THEN SubSeq(buf, 1, IdentFullLen + certLen)
          ELSE <<>>

RECURSIVE PeerListData_(_)
\* peer_list.data of receiveFindClosePeers: GetFullLen bytes per node
PeerListData_(nodes) ==
  IF nodes = <<>> THEN <<>>
  ELSE SubSeq(ToBuffer(Head(nodes)), 1, GetFullLen(Head(nodes)))
       \o PeerListData_(Tail(nodes))

\* PeerListPacketV4::toByte and PeerListPacketV5::toByte
PeerListToByte(ver, count, data) ==
  <<76, ver, (count \div 256) % 256, count % 256>> \o data

\* the response data that receiveFindClosePeers builds for a version
EncodePeerList(ver, nodes) ==
  PeerListToByte(ver, Len(nodes) % 65536, PeerListData_(nodes))

\* addNode on identity bytes: true iff the identity is neither known nor
\* the local one
addNodeBytes(known, ident) ==
  ident \notin known /\ ident # ToBuffer(LocalId)

\* nodes_count of a peer list
PeerListCount(buf) == buf[3] * 256 + buf[4]

RECURSIVE PeerListV4Loop(_, _, _, _, _)
\* the loop of receivePeerListV4 from an offset, i entries to go
PeerListV4Loop(buf, offset, i, known, closest) ==
  IF i = 0 \/ offset = Len(buf) \/ offset + KeysLen > Len(buf)
  THEN closest
  ELSE LET fullKey == SubSeq(buf, offset + 1, offset + KeysLen)
                      \o <<0, 0, 0>>
           node == FromBuffer(fullKey)
           added == node # <<>> /\ addNodeBytes(known, node)
       IN PeerListV4Loop(buf, offset + KeysLen, i - 1,
                         IF added THEN known \cup {node} ELSE known,
                         IF added THEN Append(closest, node) ELSE closest)

\* DHTworker::receivePeerListV4
receivePeerListV4(buf, known) ==
  IF buf[1] \in {76, 80} /\ buf[2] = 4
  THEN PeerListV4Loop(buf, 4, PeerListCount(buf), known, <<>>)
  ELSE <<>>

RECURSIVE PeerListV5Loop(_, _, _, _, _)
\* the loop of receivePeerListV5 from an offset, i entries to go
PeerListV5Loop(buf, offset, i, known, closest) ==
  IF i = 0 \/ offset = Len(buf) \/ offset + KeysLen > Len(buf)
  THEN closest
  ELSE LET identity == FromBuffer(SubSeq(buf, offset + 1, Len(buf)))
           added == identity # <<>> /\ addNodeBytes(known, identity)
       IN PeerListV5Loop(buf, offset + Len(identity),
                         IF identity = <<>> THEN 0 ELSE i - 1,
                         IF added THEN known \cup {identity} ELSE known,
                         IF added THEN Append(closest, identity)
                         ELSE closest)

\* DHTworker::receivePeerListV5
receivePeerListV5(buf, known) ==
  IF buf[1] \in {76, 80} /\ buf[2] = 5
  THEN PeerListV5Loop(buf, 4, PeerListCount(buf), known, <<>>)
  ELSE <<>>

\* the longest list of nodes that is encoded
MaxListLen == 3

\* the lists of distinct nodes, as getAllNodes gives them
NodeLists ==
  {l \in UNION {[1..n -> Peers] : n \in 0..MaxListLen} :
     \A i, j \in 1..Len(l) : l[i] = l[j] => i = j}

\* receiveFindClosePeers builds the response data for the nodes
EncodeStep ==
  /\ peerList.pc = "nodes"
  /\ peerList' = [peerList EXCEPT
                    !.pc = "encoded",
                    !.buf = EncodePeerList(peerList.ver, peerList.nodes)]
  /\ UNCHANGED <<dhtAll, mailVars>>

\* the receiver of the version decodes the data on an empty node table
DecodeStep ==
  /\ peerList.pc = "encoded"
  /\ peerList' = [peerList EXCEPT
                    !.pc = "decoded",
                    !.out = IF peerList.ver = 4
                            THEN receivePeerListV4(peerList.buf, {})
                            ELSE receivePeerListV5(peerList.buf, {})]
  /\ UNCHANGED <<dhtAll, mailVars>>

InitPeerList ==
  /\ DhtIdle
  /\ MailIdle
  /\ TaskIdle
  /\ peerList \in {[pc |-> "nodes", ver |-> ver, nodes |-> nodes,
                     buf |-> <<>>, out |-> <<>>] :
                      ver \in {4, 5}, nodes \in NodeLists}

NextPeerList == EncodeStep \/ DecodeStep

SpecPeerList == InitPeerList /\ [][NextPeerList]_vars

(***************************************************************************)
(* SpecSend: the send thread of EmailWorker.  A round loads the outbox,    *)
(* builds the encrypted packet of every email, stores the packets and the  *)
(* index packets through DHTworker::store and moves to sent/ what was not  *)
(* skipped.  SpecSendLive adds that the thread keeps running.              *)
(***************************************************************************)
NumMails == 2
MaxLoads == 2

Mails == 1..NumMails

\* the sizes that Encrypt returns: nothing, a short ciphertext, and the
\* first size past the range of a 16-bit length
CipherLens == {0, 40, 65536}

\* what a MIME file of outbox/ holds: whether it loads with From and To,
\* whether the addresses parse into identities, and the size of the
\* ciphertext that Encrypt gives for it
MailFile(readable, to, from, cipherLen) ==
  [readable |-> readable, to |-> to, from |-> from, cipherLen |-> cipherLen]

MailFileKinds ==
  {MailFile(TRUE, TRUE, TRUE, n) : n \in CipherLens}
  \cup {MailFile(FALSE, TRUE, TRUE, 40), MailFile(TRUE, FALSE, TRUE, 40),
        MailFile(TRUE, TRUE, FALSE, 40)}

NoCipher == [size |-> 0, content |-> 0]

\* BoteIdentityPublic::Encrypt: the ciphertext of a mail, empty on failure
Encrypt(id, file) ==
  IF file.cipherLen = 0 THEN NoCipher
  ELSE [size |-> file.cipherLen, content |-> id]

NoEncrypted == [key |-> <<>>, delete_hash |-> 0, length |-> 0,
                edata |-> NoCipher]

\* SHA256 over a two-byte prefix and a ciphertext: one digest per input
Sha256Data(prefix, edata) ==
  <<"SHA256", prefix[1], prefix[2], edata.size, edata.content>>

\* the EmailEncryptedPacket that the first loop of sendEmailTask builds:
\* length is a 16-bit field, the key hashes its two bytes and the ciphertext
EncryptedPacket(id, edata) ==
  LET length == edata.size % 65536
  IN [key |-> Sha256Data(<<(length \div 256) % 256, length % 256>>, edata),
      delete_hash |-> Sha256(id),
      length |-> length,
      edata |-> edata]

\* pbote::Email as checkOutbox returns it
NewEmail(id) ==
  [id |-> id, skip |-> FALSE, encrypted |-> NoEncrypted,
   storeCalled |-> FALSE, storeReplies |-> {}, nodes |-> <<>>,
   indexCalled |-> FALSE, indexNodes |-> <<>>]

RECURSIVE InOrder(_)
\* the mails of a set in the order of the directory listing
InOrder(ids) ==
  IF ids = {} THEN <<>>
  ELSE LET first == CHOOSE m \in ids : \A o \in ids : m <= o
       IN <<first>> \o InOrder(ids \ {first})

\* EmailWorker::checkOutbox: an email for every file of outbox/ that loads
\* with its From and To fields
checkOutbox(dir, files) ==
  LET loaded == InOrder({m \in dir : files[m].readable})
  IN [i \in 1..Len(loaded) |-> NewEmail(loaded[i])]

\* first loop of sendEmailTask on one email
EncryptEmail(email, file) ==
  IF ~file.to \/ ~file.from THEN [email EXCEPT !.skip = TRUE]
  ELSE IF Encrypt(email.id, file) = NoCipher
       THEN [email EXCEPT !.skip = TRUE]
       ELSE [email EXCEPT
               !.encrypted = EncryptedPacket(email.id,
                                             Encrypt(email.id, file))]

\* the responses that the batch of a store holds when store reads them:
\* none, one that is not OK, one that is OK
StoreReply(n, status) ==
  [NoPacket EXCEPT !.from = ToBase64(n), !.type = "N", !.ver = 4,
                   !.cid = n, !.status = status]

StoreReplySets ==
  {{}, {StoreReply(1, "NO_DISK_SPACE")}, {StoreReply(2, "OK")}}

RECURSIVE AddResponses(_, _)
AddResponses(b, replies) ==
  IF replies = {} THEN b
  ELSE LET r == CHOOSE x \in replies : TRUE
       IN AddResponses(addResponse(addPacket(b, r.cid, r.from), r),
                       replies \ {r})

\* what DHTworker::store returns for the responses its batch received
storeReturn(replies) == VerbResult("store", AddResponses(NewBatch, replies))

\* second loop of sendEmailTask on one email
StoreEmail(email, replies) ==
  IF email.skip THEN email
  ELSE [email EXCEPT !.storeCalled = TRUE,
                     !.storeReplies = {r.status : r \in replies},
                     !.nodes = storeReturn(replies),
                     !.skip = (storeReturn(replies) = <<>>)]

\* third loop of sendEmailTask on one email
StoreIndex(email, file, replies) ==
  IF email.skip THEN email
  ELSE IF ~file.to THEN [email EXCEPT !.skip = TRUE]
       ELSE [email EXCEPT !.indexCalled = TRUE,
                          !.indexNodes = storeReturn(replies),
                          !.skip = (storeReturn(replies) = <<>>)]

\* A last loop that moves every email of the round.
MovedToSentAll(emails) == {emails[i].id : i \in 1..Len(emails)}

\* last loop of sendEmailTask: the emails it moves to sent/
MovedToSent(emails) ==
  {emails[i].id : i \in {j \in 1..Len(emails) : ~emails[j].skip}}

\* A send task that returns after a round that skipped an email.
RoundEndReturnOnSkip(emails) ==
  IF \E i \in 1..Len(emails) : emails[i].skip THEN "done" ELSE "loop"

\* the end of the body of while (started_): back to the loop test
RoundEnd(emails) == "loop"

\* while (started_), the sleep and checkOutbox; an empty outbox goes back to
\* the loop test
SendCheckOutbox ==
  /\ spc = "loop"
  /\ IF email_started_
     THEN LET emails == checkOutbox(outboxDir, mailFiles)
          IN /\ outbox' = emails
             /\ spc' = IF emails = <<>> THEN "loop" ELSE "encrypt"
             /\ loads' = [m \in Mails |->
                            IF \E i \in 1..Len(emails) : emails[i].id = m
                            THEN IF loads[m] < MaxLoads THEN loads[m] + 1
                                 ELSE MaxLoads
                            ELSE loads[m]]
     ELSE /\ spc' = "done"
          /\ UNCHANGED <<outbox, loads>>
  /\ UNCHANGED <<dhtAll, peerList, email_started_, mailFiles, outboxDir,
                 sentDir>>

\* the loop that creates the encrypted email packets
SendEncrypt ==
  /\ spc = "encrypt"
  /\ outbox' = [i \in 1..Len(outbox) |->
                  EncryptEmail(outbox[i], mailFiles[outbox[i].id])]
  /\ spc' = "storeEmail"
  /\ UNCHANGED <<dhtAll, peerList, email_started_, mailFiles, outboxDir,
                 sentDir, loads>>

\* the loop that stores the encrypted email packets
SendStoreEmail ==
  /\ spc = "storeEmail"
  /\ \E replies \in [1..Len(outbox) -> StoreReplySets] :
       outbox' = [i \in 1..Len(outbox) |->
                    StoreEmail(outbox[i],
                               IF outbox[i].skip THEN {} ELSE replies[i])]
  /\ spc' = "storeIndex"
  /\ UNCHANGED <<dhtAll, peerList, email_started_, mailFiles, outboxDir,
                 sentDir, loads>>

\* the loop that creates and stores the index packets
SendStoreIndex ==
  /\ spc = "storeIndex"
  /\ \E replies \in [1..Len(outbox) -> StoreReplySets] :
       outbox' = [i \in 1..Len(outbox) |->
                    StoreIndex(outbox[i], mailFiles[outbox[i].id],
                               IF outbox[i].skip THEN {} ELSE replies[i])]
  /\ spc' = "move"
  /\ UNCHANGED <<dhtAll, peerList, email_started_, mailFiles, outboxDir,
                 sentDir, loads>>

\* the loop that saves and moves the emails, and the end of the round
SendMove ==
  /\ spc = "move"
  /\ outboxDir' = outboxDir \ MovedToSent(outbox)
  /\ sentDir' = sentDir \cup MovedToSent(outbox)
  /\ spc' = RoundEnd(outbox)
  /\ UNCHANGED <<dhtAll, peerList, email_started_, mailFiles, outbox,
                 loads>>

\* EmailWorker::stop clears started_
StopEmailWorker ==
  /\ email_started_
  /\ email_started_' = FALSE
  /\ UNCHANGED <<dhtAll, peerList, mailFiles, outboxDir, sentDir, outbox,
                 spc, loads>>

InitSend ==
  /\ DhtIdle
  /\ TaskIdle
  /\ peerList = NoPeerList
  /\ email_started_ = TRUE
  /\ mailFiles \in [Mails -> MailFileKinds]
  /\ outboxDir = Mails
  /\ sentDir = {}
  /\ outbox = <<>>
  /\ spc = "loop"
  /\ loads = [m \in Mails |-> 0]

SendThread ==
  \/ SendCheckOutbox
  \/ SendEncrypt
  \/ SendStoreEmail
  \/ SendStoreIndex
  \/ SendMove

NextSend ==
  \/ SendCheckOutbox
  \/ SendEncrypt
  \/ SendStoreEmail
  \/ SendStoreIndex
  \/ SendMove
  \/ StopEmailWorker

SpecSend == InitSend /\ [][NextSend]_vars

\* the outbox of the rounds that are followed for ever: mails that load or
\* do not, and that encrypt or do not
InitSendLive ==
  /\ InitSend
  /\ \A m \in Mails : mailFiles[m].to /\ mailFiles[m].from
                        /\ mailFiles[m].cipherLen \in {0, 40}

\* the send thread is a thread of its own: it is run again and again, and
\* every store returns after its bounded waits
SpecSendLive == InitSendLive /\ [][NextSend]_vars /\ WF_vars(SendThread)

(***************************************************************************)
(* SpecCheck: the check thread of one identity.  A round takes the         *)
(* encrypted email packets retrieveEmailPacket returned, processEmail      *)
(* decrypts and verifies them, and every email it returns is saved to      *)
(* inbox/ and deleted from the DHT.  The key of a packet is its place in   *)
(* the list.                                                               *)
(***************************************************************************)
MaxPackets == 2

\* edata of an EmailEncryptedPacket: empty, or a ciphertext that the
\* identity can decrypt or not, holding an email with a delete-auth that may
\* be an empty email
EmptyEdata == [empty |-> TRUE, ok |-> FALSE, DA |-> 0, body |-> FALSE]
Edatas ==
  {EmptyEdata, [empty |-> FALSE, ok |-> FALSE, DA |-> 0, body |-> FALSE]}
    \cup {[empty |-> FALSE, ok |-> TRUE, DA |-> da, body |-> body] :
            da \in DelAuths, body \in BOOLEAN}

\* the packets a round can retrieve: edata and delete_hash
EncryptedKinds ==
  {[edata |-> e, delete_hash |-> h] :
     e \in Edatas, h \in {Sha256(da) : da \in DelAuths}}

\* the packet of a kind stored under a key
EmailEncryptedPacket(key, kind) ==
  [key |-> key, edata |-> kind.edata, delete_hash |-> kind.delete_hash]

\* identity.Decrypt: the plaintext, or nothing when decryption fails
Decrypt(edata) ==
  IF edata.ok THEN [empty |-> FALSE, DA |-> edata.DA, body |-> edata.body]
  ELSE [empty |-> TRUE, DA |-> 0, body |-> FALSE]

\* Email::verify: the hash of the delete-auth is the delete-verification hash
verify(mail, delete_hash) == Sha256(mail.DA) = delete_hash

\* the body of the loop of processEmail for one packet: the emails with the
\* email of the packet appended, or unchanged after a continue
processOneNoVerify(done, enc_mail) ==
  IF enc_mail.edata.empty THEN done
  ELSE LET data == Decrypt(enc_mail.edata) IN
       IF data.empty THEN done
       ELSE IF data.body
            THEN Append(done, [DA |-> data.DA, encrypted |-> enc_mail])
            ELSE done

processOne(done, enc_mail) ==
  IF enc_mail.edata.empty THEN done
  ELSE LET data == Decrypt(enc_mail.edata) IN
       IF data.empty THEN done
       ELSE IF ~verify(data, enc_mail.delete_hash) THEN done
            ELSE IF data.body
                 THEN Append(done, [DA |-> data.DA, encrypted |-> enc_mail])
                 ELSE done

RECURSIVE processEmailLoop(_, _)
processEmailLoop(done, mail_packets) ==
  IF mail_packets = <<>> THEN done
  ELSE processEmailLoop(processOne(done, Head(mail_packets)),
                        Tail(mail_packets))

processEmail(mail_packets) == processEmailLoop(<<>>, mail_packets)

\* the two deletions checkEmailTask asks the DHT for after it saved a mail
DeleteRequestsOf(mail) ==
  {[what |-> "email", key |-> mail.encrypted.key, DA |-> mail.DA],
   [what |-> "index", key |-> mail.encrypted.key, DA |-> mail.DA]}

\* what the round did for an email
CheckEvent(what, mail) ==
  [what |-> what, key |-> mail.encrypted.key, DA |-> mail.DA]

\* A loop body that asks for the deletions before it saves the email.
DeliverEventsDeleteFirst(mail) ==
  <<CheckEvent("email", mail), CheckEvent("index", mail),
    CheckEvent("save", mail)>>

\* the body of the loop over the processed emails, in its order: save to
\* inbox, deleteEmail, deleteIndexEntry
DeliverEvents(mail) ==
  <<CheckEvent("save", mail), CheckEvent("email", mail),
    CheckEvent("index", mail)>>

\* the lists retrieveEmailPacket can return
PacketLists ==
  UNION {{[i \in 1..n |-> EmailEncryptedPacket(i, kinds[i])] :
            kinds \in [1..n -> EncryptedKinds]} : n \in 0..MaxPackets}

\* the head of the loop: a round starts and retrieves packets
CheckRetrieve ==
  /\ cpc = "loop"
  /\ email_started_
  /\ \E packets \in PacketLists : enc_mail_packets' = packets
  /\ cpc' = "retrieved"
  /\ check_emails' = <<>>
  /\ inbox' = {}
  /\ deleteRequests' = {}
  /\ checkLog' = <<>>
  /\ UNCHANGED checkRest

\* no mail to process ends the round; otherwise processEmail runs
CheckProcess ==
  /\ cpc = "retrieved"
  /\ IF enc_mail_packets = <<>>
     THEN cpc' = "loop" /\ check_emails' = check_emails
     ELSE cpc' = "deliver" /\ check_emails' = processEmail(enc_mail_packets)
  /\ UNCHANGED <<checkRest, enc_mail_packets, inbox, deleteRequests,
                 checkLog>>

\* the loop over the processed emails: save to inbox, delete from the DHT
CheckDeliver ==
  /\ cpc = "deliver"
  /\ check_emails # <<>>
  /\ inbox' = inbox \cup {Head(check_emails)}
  /\ deleteRequests' = deleteRequests \cup DeleteRequestsOf(Head(check_emails))
  /\ checkLog' = checkLog \o DeliverEvents(Head(check_emails))
  /\ check_emails' = Tail(check_emails)
  /\ UNCHANGED <<checkRest, cpc, enc_mail_packets>>

\* the round is complete
CheckComplete ==
  /\ cpc = "deliver"
  /\ check_emails = <<>>
  /\ cpc' = "loop"
  /\ UNCHANGED <<checkRest, enc_mail_packets, check_emails, inbox,
                 deleteRequests, checkLog>>

InitCheck ==
  /\ LateIdle
  /\ DhtIdle
  /\ peerList = NoPeerList
  /\ MailIdleStarted
  /\ WorkerIdle
  /\ StopIdle
  /\ MutexIdle
  /\ FuncIdle
  /\ cpc = "loop"
  /\ enc_mail_packets = <<>>
  /\ check_emails = <<>>
  /\ inbox = {}
  /\ deleteRequests = {}
  /\ checkLog = <<>>

NextCheck == CheckRetrieve \/ CheckProcess \/ CheckDeliver \/ CheckComplete

SpecCheck == InitCheck /\ [][NextCheck]_vars

(***************************************************************************)
(* SpecWorker: the threads of EmailWorker.  One thread calls start() and   *)
(* stop(); every start() creates a thread that runs run(), the supervisor, *)
(* which starts the send thread and one check thread per identity name.    *)
(* The identities of the context change at any time.                       *)
(***************************************************************************)
NumIdNames == 2
MaxStarts == 2

\* publicName of the identities there can be
IdNames == 1..NumIdNames

\* the names startCheckEmailTasks creates a thread for
NewCheckNames(started, ids, threads) ==
  IF ~started \/ ids = {} THEN {} ELSE ids \ DOMAIN threads

startCheckEmailTasks(started, ids, threads) ==
  [n \in DOMAIN threads \cup NewCheckNames(started, ids, threads) |->
     IF n \in DOMAIN threads THEN threads[n] ELSE "run"]

\* whether startSendEmailTask creates a thread, and m_send_thread_ after it
StartsSend(started, ids) == started /\ ids # {}

startSendEmailTask(started, ids, thread) ==
  IF StartsSend(started, ids) THEN "run" ELSE thread

\* stopSendEmailTask: joins and deletes the send thread once started_ is
\* false; the join returns when the thread has left sendEmailTask
StopSendJoins(started, thread) == thread # "null" /\ ~started

StopSendReturns(started, thread) ==
  StopSendJoins(started, thread) => thread = "done"

stopSendEmailTask(started, thread) ==
  IF StopSendJoins(started, thread) THEN "null" ELSE thread

\* begin() of m_check_threads_
FirstName(threads) ==
  CHOOSE n \in DOMAIN threads : \A o \in DOMAIN threads : n <= o

\* one turn of the loop of stopCheckEmailTasks: the join of the first thread
\* has returned and its entry is erased
EraseFirst(threads) ==
  [n \in DOMAIN threads \ {FirstName(threads)} |-> threads[n]]

\* EmailWorker::start
WorkerStart ==
  /\ wpc = "idle"
  /\ Len(supervisors) < MaxStarts
  /\ ~(email_started_ /\ m_worker_thread_ # 0)
  /\ m_send_thread_' = IF email_identities = {} THEN m_send_thread_
                       ELSE startSendEmailTask(email_started_,
                                               email_identities,
                                               m_send_thread_)
  /\ sendLive' = IF StartsSend(email_started_, email_identities)
                 THEN sendLive + 1 ELSE sendLive
  /\ m_check_threads_' =
       IF email_identities = {} THEN m_check_threads_
       ELSE startCheckEmailTasks(email_started_, email_identities,
                                 m_check_threads_)
  /\ checkLive' =
       [n \in IdNames |->
          IF n \in NewCheckNames(email_started_, email_identities,
                                 m_check_threads_)
          THEN checkLive[n] + 1 ELSE checkLive[n]]
  /\ email_started_' = TRUE
  /\ supervisors' = Append(supervisors, "while")
  /\ m_worker_thread_' = Len(supervisors) + 1
  /\ UNCHANGED <<workerRest, email_identities, wpc>>

\* EmailWorker::stop up to its first join
WorkerStop ==
  /\ wpc = "idle"
  /\ email_started_
  /\ email_started_' = FALSE
  /\ wpc' = "stopSend"
  /\ UNCHANGED <<workerRest, email_identities, supervisors, m_worker_thread_,
                 m_send_thread_, m_check_threads_, sendLive, checkLive>>

\* stop(): stopSendEmailTask
WorkerStopSend ==
  /\ wpc = "stopSend"
  /\ StopSendReturns(email_started_, m_send_thread_)
  /\ m_send_thread_' = stopSendEmailTask(email_started_, m_send_thread_)
  /\ wpc' = "stopCheck"
  /\ UNCHANGED <<workerRest, email_started_, email_identities, supervisors,
                 m_worker_thread_, m_check_threads_, sendLive, checkLive>>

\* stop(): one turn of the loop of stopCheckEmailTasks, or its end
WorkerStopCheck ==
  /\ wpc = "stopCheck"
  /\ IF DOMAIN m_check_threads_ = {}
     THEN wpc' = "idle" /\ m_check_threads_' = m_check_threads_
     ELSE /\ m_check_threads_[FirstName(m_check_threads_)] = "done"
          /\ m_check_threads_' = EraseFirst(m_check_threads_)
          /\ wpc' = wpc
  /\ UNCHANGED <<workerRest, email_started_, email_identities, supervisors,
                 m_worker_thread_, m_send_thread_, sendLive, checkLive>>

\* run(): the test of the loop and, with identities, the start of the tasks
SupervisorLoop(s) ==
  /\ s <= Len(supervisors)
  /\ supervisors[s] = "while"
  /\ IF ~email_started_
     THEN /\ supervisors' = [supervisors EXCEPT ![s] = "done"]
          /\ UNCHANGED <<m_send_thread_, m_check_threads_, sendLive,
                         checkLive>>
     ELSE IF email_identities # {}
     THEN /\ supervisors' = [supervisors EXCEPT ![s] = "sleep"]
          /\ m_check_threads_' =
               startCheckEmailTasks(email_started_, email_identities,
                                    m_check_threads_)
          /\ checkLive' =
               [n \in IdNames |->
                  IF n \in NewCheckNames(email_started_, email_identities,
                                         m_check_threads_)
                  THEN checkLive[n] + 1 ELSE checkLive[n]]
          /\ m_send_thread_' =
               IF m_send_thread_ = "null"
               THEN startSendEmailTask(email_started_, email_identities,
                                       m_send_thread_)
               ELSE m_send_thread_
          /\ sendLive' = IF m_send_thread_ = "null" THEN sendLive + 1
                         ELSE sendLive
     ELSE /\ supervisors' = [supervisors EXCEPT ![s] = "stopSend"]
          /\ UNCHANGED <<m_send_thread_, m_check_threads_, sendLive,
                         checkLive>>
  /\ UNCHANGED <<workerRest, email_started_, email_identities,
                 m_worker_thread_, wpc>>

\* run() without identities: stopSendEmailTask
SupervisorStopSend(s) ==
  /\ s <= Len(supervisors)
  /\ supervisors[s] = "stopSend"
  /\ StopSendReturns(email_started_, m_send_thread_)
  /\ m_send_thread_' = stopSendEmailTask(email_started_, m_send_thread_)
  /\ supervisors' = [supervisors EXCEPT ![s] = "stopCheck"]
  /\ UNCHANGED <<workerRest, email_started_, email_identities,
                 m_worker_thread_, m_check_threads_, sendLive, checkLive,
                 wpc>>

\* run() without identities: one turn of the loop of stopCheckEmailTasks,
\* or its end
SupervisorStopCheck(s) ==
  /\ s <= Len(supervisors)
  /\ supervisors[s] = "stopCheck"
  /\ IF DOMAIN m_check_threads_ = {}
     THEN /\ supervisors' = [supervisors EXCEPT ![s] = "sleep"]
          /\ m_check_threads_' = m_check_threads_
     ELSE /\ m_check_threads_[FirstName(m_check_threads_)] = "done"
          /\ m_check_threads_' = EraseFirst(m_check_threads_)
          /\ supervisors' = supervisors
  /\ UNCHANGED <<workerRest, email_started_, email_identities,
                 m_worker_thread_, m_send_thread_, sendLive, checkLive, wpc>>

\* run(): the sleep of 60 seconds is over
SupervisorWake(s) ==
  /\ s <= Len(supervisors)
  /\ supervisors[s] = "sleep"
  /\ supervisors' = [supervisors EXCEPT ![s] = "while"]
  /\ UNCHANGED <<workerRest, email_started_, email_identities,
                 m_worker_thread_, m_send_thread_, m_check_threads_,
                 sendLive, checkLive, wpc>>

\* sendEmailTask finds started_ false at the head of its loop and returns
SendTaskExit ==
  /\ m_send_thread_ = "run"
  /\ ~email_started_
  /\ m_send_thread_' = "done"
  /\ sendLive' = sendLive - 1
  /\ UNCHANGED <<workerRest, email_started_, email_identities, supervisors,
                 m_worker_thread_, m_check_threads_, checkLive, wpc>>

\* checkEmailTask of a name finds started_ false at the head of its loop
CheckTaskExit(n) ==
  /\ n \in DOMAIN m_check_threads_
  /\ m_check_threads_[n] = "run"
  /\ ~email_started_
  /\ m_check_threads_' = [m_check_threads_ EXCEPT ![n] = "done"]
  /\ checkLive' = [checkLive EXCEPT ![n] = @ - 1]
  /\ UNCHANGED <<workerRest, email_started_, email_identities, supervisors,
                 m_worker_thread_, m_send_thread_, sendLive, wpc>>

\* identities are added to the context or removed from it
ChangeIdentities ==
  /\ \E ids \in SUBSET IdNames :
       ids # email_identities /\ email_identities' = ids
  /\ UNCHANGED <<workerRest, email_started_, supervisors, m_worker_thread_,
                 m_send_thread_, m_check_threads_, sendLive, checkLive, wpc>>

InitWorker ==
  /\ LateIdle
  /\ DhtIdle
  /\ peerList = NoPeerList
  /\ MailIdle
  /\ CheckIdle
  /\ StopIdle
  /\ MutexIdle
  /\ FuncIdle
  /\ email_identities \in SUBSET IdNames
  /\ supervisors = <<>>
  /\ m_worker_thread_ = 0
  /\ m_send_thread_ = "null"
  /\ m_check_threads_ = <<>>
  /\ sendLive = 0
  /\ checkLive = [n \in IdNames |-> 0]
  /\ wpc = "idle"

\* the steps of the threads of EmailWorker and of a stop() under way
WorkerThreads ==
  \/ WorkerStopSend
  \/ WorkerStopCheck
  \/ \E s \in 1..MaxStarts : SupervisorLoop(s)
  \/ \E s \in 1..MaxStarts : SupervisorStopSend(s)
  \/ \E s \in 1..MaxStarts : SupervisorStopCheck(s)
  \/ \E s \in 1..MaxStarts : SupervisorWake(s)
  \/ SendTaskExit
  \/ \E n \in IdNames : CheckTaskExit(n)

NextWorker ==
  \/ WorkerStart
  \/ WorkerStop
  \/ ChangeIdentities
  \/ WorkerStopSend
  \/ WorkerStopCheck
  \/ \E s \in 1..MaxStarts : SupervisorLoop(s)
  \/ \E s \in 1..MaxStarts : SupervisorStopSend(s)
  \/ \E s \in 1..MaxStarts : SupervisorStopCheck(s)
  \/ \E s \in 1..MaxStarts : SupervisorWake(s)
  \/ SendTaskExit
  \/ \E n \in IdNames : CheckTaskExit(n)

SpecWorker == InitWorker /\ [][NextWorker]_vars

\* every thread is scheduled again and again, and so is a stop() under way
SpecWorkerLive == InitWorker /\ [][NextWorker]_vars /\ WF_vars(WorkerThreads)

(***************************************************************************)
(* SpecStop: stop() of RequestHandler and of DHTworker.  Both components   *)
(* are started; the packet handler thread takes datagrams from the receive *)
(* queue, which blocks while it is empty, and the thread of DHTworker::run *)
(* writes nodes.txt every 60 seconds.  What the handler does with a        *)
(* datagram is the subject of SpecDispatch.                                *)
(***************************************************************************)
MaxQueue == 2

\* a datagram arrives from the overlay
Arrive ==
  /\ m_recvQueue < MaxQueue
  /\ m_recvQueue' = m_recvQueue + 1
  /\ UNCHANGED <<stopRest, started_, nodesFile, handler_started_,
                 m_PHandlerThread, hpc, dht_worker_thread_, dpc>>

\* RequestHandler::run: the test of the loop
HandlerLoop ==
  /\ m_PHandlerThread = "while"
  /\ m_PHandlerThread' = IF handler_started_ THEN "GetNext" ELSE "done"
  /\ UNCHANGED <<stopRest, started_, nodesFile, handler_started_,
                 m_recvQueue, hpc, dht_worker_thread_, dpc>>

\* RequestHandler::run: GetNext returns a datagram, which is handled
HandlerGetNext ==
  /\ m_PHandlerThread = "GetNext"
  /\ m_recvQueue > 0
  /\ m_recvQueue' = m_recvQueue - 1
  /\ m_PHandlerThread' = "while"
  /\ UNCHANGED <<stopRest, started_, nodesFile, handler_started_, hpc,
                 dht_worker_thread_, dpc>>

\* RequestHandler::stop up to the join
HandlerStop ==
  /\ hpc = "idle"
  /\ handler_started_' = FALSE
  /\ hpc' = IF m_PHandlerThread # "null" THEN "join" ELSE "stopped"
  /\ UNCHANGED <<stopRest, started_, nodesFile, m_PHandlerThread,
                 m_recvQueue, dht_worker_thread_, dpc>>

\* RequestHandler::stop: the join returns, the thread is deleted
HandlerJoin ==
  /\ hpc = "join"
  /\ m_PHandlerThread = "done"
  /\ m_PHandlerThread' = "null"
  /\ hpc' = "stopped"
  /\ UNCHANGED <<stopRest, started_, nodesFile, handler_started_,
                 m_recvQueue, dht_worker_thread_, dpc>>

\* DHTworker::run: the test of the loop, and writeNodes
RunLoop ==
  /\ dht_worker_thread_ = "while"
  /\ IF started_
     THEN /\ nodesFile' = FileOfNodes(m_nodes_)
          /\ dht_worker_thread_' = "sleep"
     ELSE /\ nodesFile' = nodesFile
          /\ dht_worker_thread_' = "done"
  /\ UNCHANGED <<stopRest, started_, handler_started_, m_PHandlerThread,
                 m_recvQueue, hpc, dpc>>

\* DHTworker::run: the sleep of 60 seconds is over
RunWake ==
  /\ dht_worker_thread_ = "sleep"
  /\ dht_worker_thread_' = "while"
  /\ UNCHANGED <<stopRest, started_, nodesFile, handler_started_,
                 m_PHandlerThread, m_recvQueue, hpc, dpc>>

\* DHTworker::stop up to the join
DhtStop ==
  /\ dpc = "idle"
  /\ IF started_
     THEN /\ started_' = FALSE
          /\ dpc' = IF dht_worker_thread_ # "null" THEN "join" ELSE "stopped"
     ELSE /\ started_' = started_
          /\ dpc' = "stopped"
  /\ UNCHANGED <<stopRest, nodesFile, handler_started_, m_PHandlerThread,
                 m_recvQueue, hpc, dht_worker_thread_>>

\* DHTworker::stop: the join returns, the thread is deleted
DhtJoin ==
  /\ dpc = "join"
  /\ dht_worker_thread_ = "done"
  /\ dht_worker_thread_' = "null"
  /\ dpc' = "stopped"
  /\ UNCHANGED <<stopRest, started_, nodesFile, handler_started_,
                 m_PHandlerThread, m_recvQueue, hpc>>

InitStop ==
  /\ LateIdle
  /\ DhtIdle
  /\ peerList = NoPeerList
  /\ MailIdle
  /\ CheckIdle
  /\ WorkerIdle
  /\ MutexIdle
  /\ FuncIdle
  /\ handler_started_ = TRUE
  /\ m_PHandlerThread = "while"
  /\ m_recvQueue = 0
  /\ hpc = "idle"
  /\ dht_worker_thread_ = "while"
  /\ dpc = "idle"

\* the steps of the threads and of the stop() calls under way
StopThreads ==
  \/ HandlerLoop
  \/ HandlerGetNext
  \/ HandlerJoin
  \/ RunLoop
  \/ RunWake
  \/ DhtJoin

NextStop ==
  \/ Arrive
  \/ HandlerStop
  \/ DhtStop
  \/ HandlerLoop
  \/ HandlerGetNext
  \/ HandlerJoin
  \/ RunLoop
  \/ RunWake
  \/ DhtJoin

\* every thread is scheduled again and again; datagrams arrive or do not
SpecStop == InitStop /\ [][NextStop]_vars /\ WF_vars(StopThreads)

(***************************************************************************)
(* SpecResponse: receiveResponsePkt on the payload of a response that no   *)
(* batch waits for: a status byte, two bytes of length, and the data.      *)
(***************************************************************************)
MaxDataLen == 2

\* the first byte of a data packet: peer list, index, and another one
DataBytes == {"L", "I", "X"}

\* the payloads: the declared length is any up to the bound, and so is the
\* number of bytes that follow it
ResponsePayloads ==
  UNION {{<<0, 0, dataLen>> \o data : data \in [1..n -> DataBytes]} :
           dataLen \in 0..MaxDataLen, n \in 0..MaxDataLen}

\* receiveResponsePkt.  read: the offsets of the payload that the memcpy
\* calls read, from 1; dataRead: the elements of data[dataLen] that are
\* read, from 0; stray: what a read past the end of an array gives.
receiveResponsePkt(payload, ver, stray) ==
  LET dataLen == payload[2] * 256 + payload[3]
      data == [i \in 1..dataLen |->
                 IF 3 + i <= Len(payload) THEN payload[3 + i] ELSE stray]
      type == IF dataLen >= 1 THEN data[1] ELSE stray
      peerList_ == type \in {"L", "P"}
      known == type \in {"I", "E", "C"}
  IN [read |-> 1..(3 + dataLen),
      dataRead |-> IF known THEN {0} ELSE {0, 1},
      ret |-> IF peerList_ /\ ver \in {4, 5} THEN "receivePeerList"
              ELSE IF known THEN "true"
              ELSE "false"]

\* the dispatcher hands the response to receiveResponsePkt
ReceiveResponse ==
  /\ resp.pc = "received"
  /\ \E stray \in DataBytes :
       LET r == receiveResponsePkt(resp.payload, resp.ver, stray)
       IN resp' = [resp EXCEPT !.pc = "done", !.read = r.read,
                               !.dataRead = r.dataRead, !.ret = r.ret]
  /\ UNCHANGED respRest

InitResponse ==
  /\ LateIdle
  /\ DhtIdle
  /\ peerList = NoPeerList
  /\ MailIdle
  /\ CheckIdle
  /\ WorkerIdle
  /\ StopIdle
  /\ MutexIdle
  /\ closestCall = NoClosest
  /\ resp \in {[pc |-> "received", payload |-> payload, ver |-> ver,
                read |-> {}, dataRead |-> {}, ret |-> "none"] :
                 payload \in ResponsePayloads, ver \in {4, 5}}

NextResponse == ReceiveResponse

SpecResponse == InitResponse /\ [][NextResponse]_vars

(***************************************************************************)
(* SpecClosest: getClosestNodes on a node table whose nodes are locked or  *)
(* not.  Identity hashes and keys are numbers of HashBits bits.            *)
(***************************************************************************)
MaxNum == 2
HashBits == 3

RECURSIVE Xor(_, _)
\* XORMetric: the bitwise exclusive or of two hashes, compared as a number
Xor(a, b) ==
  IF a = 0 /\ b = 0 THEN 0
  ELSE (((a % 2) + (b % 2)) % 2) + (2 * Xor(a \div 2, b \div 2))

\* CreateRoutingKey: the hash of the key with the date
CreateRoutingKey(key) == ((key * 5) + 3) % (2 ^ HashBits)

\* std::set<Sorted>::insert: in the order of the metric, and not at all when
\* an element of the same metric is there; this one puts it last
SortedInsertLast(sorted, node, m) ==
  IF \E i \in 1..Len(sorted) : sorted[i].metric = m THEN sorted
  ELSE Append(sorted, [node |-> node, metric |-> m])

SortedInsert(sorted, node, m) ==
  IF \E i \in 1..Len(sorted) : sorted[i].metric = m THEN sorted
  ELSE LET before == Cardinality({i \in 1..Len(sorted) :
                                    sorted[i].metric < m})
       IN SubSeq(sorted, 1, before)
            \o <<[node |-> node, metric |-> m]>>
            \o SubSeq(sorted, before + 1, Len(sorted))

\* sorted.rbegin()->metric; of an empty set it is whatever the read gives
LastMetric(sorted, stray) ==
  IF sorted = <<>> THEN stray ELSE sorted[Len(sorted)].metric

RECURSIVE ClosestLoop(_, _, _, _, _, _, _, _)
\* the loop of getClosestNodes over m_nodes_, from entry i
ClosestLoop(nodes, i, sorted, destKey, ourMetric, num, to_us, stray) ==
  IF i > Len(nodes) THEN sorted
  ELSE LET node == nodes[i]
           m == Xor(destKey, node.hash)
           next ==
             IF node.locked THEN sorted
             ELSE IF to_us /\ ourMetric < m THEN sorted
             ELSE IF Len(sorted) < num THEN SortedInsert(sorted, node, m)
             ELSE IF m < LastMetric(sorted, stray)
                  THEN LET grown == SortedInsert(sorted, node, m)
                       IN SubSeq(grown, 1, Len(grown) - 1)
                  ELSE sorted
       IN ClosestLoop(nodes, i + 1, next, destKey, ourMetric, num, to_us,
                      stray)

\* getClosestNodes(key, num, to_us) on the table nodes
getClosestNodes(nodes, key, num, to_us, stray) ==
  LET destKey == CreateRoutingKey(key)
      ourMetric == IF to_us THEN Xor(destKey, IdentHash(LocalId)) ELSE 0
      sorted == ClosestLoop(nodes, 1, <<>>, destKey, ourMetric, num, to_us,
                            stray)
      n == IF Len(sorted) < num THEN Len(sorted) ELSE num
  IN [i \in 1..n |-> sorted[i].node]

RECURSIVE LockedTable(_, _)
\* the node table of a set of peers, those of locked being locked
LockedTable(ids, locked) ==
  IF ids = {} THEN <<>>
  ELSE LET id == CHOOSE x \in ids : \A y \in ids : IdentHash(x) >= IdentHash(y)
       IN Append(LockedTable(ids \ {id}, locked),
                 [hash |-> IdentHash(id), ident |-> id,
                  locked |-> id \in locked])

\* a thread calls getClosestNodes
GetClosest ==
  /\ closestCall.pc = "called"
  /\ \E stray \in {0, 2 ^ HashBits - 1} :
       closestCall' =
         [closestCall EXCEPT
            !.pc = "done",
            !.res = getClosestNodes(closestCall.nodes, closestCall.key,
                                    closestCall.num, closestCall.to_us,
                                    stray)]
  /\ UNCHANGED closestRest

InitClosest ==
  /\ LateIdle
  /\ DhtIdle
  /\ peerList = NoPeerList
  /\ MailIdle
  /\ CheckIdle
  /\ WorkerIdle
  /\ StopIdle
  /\ MutexIdle
  /\ resp = NoResp
  /\ closestCall \in
       {[pc |-> "called", nodes |-> LockedTable(ids, locked), key |-> key,
         num |-> num, to_us |-> to_us, res |-> <<>>] :
          ids \in SUBSET Peers, locked \in SUBSET Peers, key \in Keys,
          num \in 0..MaxNum, to_us \in BOOLEAN}

NextClosest == GetClosest

SpecClosest == InitClosest /\ [][NextClosest]_vars

(***************************************************************************)
(* SpecMutex: the threads of the process at the node table.  A thread      *)
(* enters one of the functions that read m_nodes_ or insert into it, takes *)
(* the node-table mutex if the function does, is at the map, and leaves.   *)
(***************************************************************************)
\* the functions, whether they take m_nodes_mutex_ around their access to
\* the map, and whether they insert
NodeTableAccesses ==
  {[fn |-> "addNode",          lock |-> TRUE,  insert |-> TRUE],
   [fn |-> "loadNodes",        lock |-> FALSE, insert |-> TRUE],
   [fn |-> "findNode",         lock |-> TRUE,  insert |-> FALSE],
   [fn |-> "getClosestNodes",  lock |-> TRUE,  insert |-> FALSE],
   [fn |-> "getAllNodes",      lock |-> FALSE, insert |-> FALSE],
   [fn |-> "getUnlockedNodes", lock |-> TRUE,  insert |-> FALSE],
   [fn |-> "find",             lock |-> FALSE, insert |-> FALSE],
   [fn |-> "store",            lock |-> FALSE, insert |-> FALSE],
   [fn |-> "run",              lock |-> FALSE, insert |-> FALSE],
   [fn |-> "writeNodes",       lock |-> TRUE,  insert |-> FALSE]}

\* the thread is not at the node table
NoAccess == [fn |-> "none", lock |-> FALSE, insert |-> FALSE]

\* the peer an insertion adds: the next one that is not in the table
NextPeer(map) == CHOOSE id \in Peers : \A o \in Peers :
                   IdentHash(o) \in Hashes(map) \/ id <= o

\* a thread reaches the access of a function to m_nodes_; std::unique_lock
\* waits until the mutex is free
EnterAccess(t, a) ==
  /\ access[t] = NoAccess
  /\ a.lock => m_nodes_mutex_ = 0
  /\ a.insert => \E id \in Peers : IdentHash(id) \notin Hashes(m_nodes_)
  /\ m_nodes_mutex_' = IF a.lock THEN t ELSE m_nodes_mutex_
  /\ access' = [access EXCEPT ![t] = a]
  /\ UNCHANGED <<mutexRest, m_nodes_>>

\* the access ends: an insertion has put its node into the map, and the
\* lock of the function, if it has one, goes out of scope
LeaveAccess(t) ==
  /\ access[t] # NoAccess
  /\ m_nodes_' = IF access[t].insert
                 THEN MapInsert(m_nodes_, NewNode(NextPeer(m_nodes_))).map
                 ELSE m_nodes_
  /\ m_nodes_mutex_' = IF access[t].lock THEN 0 ELSE m_nodes_mutex_
  /\ access' = [access EXCEPT ![t] = NoAccess]
  /\ UNCHANGED mutexRest

InitMutex ==
  /\ LateIdle
  /\ DhtIdle
  /\ peerList = NoPeerList
  /\ MailIdle
  /\ CheckIdle
  /\ WorkerIdle
  /\ StopIdle
  /\ FuncIdle
  /\ m_nodes_mutex_ = 0
  /\ access = [t \in Threads |-> NoAccess]

NextMutex ==
  \/ \E t \in Threads, a \in NodeTableAccesses : EnterAccess(t, a)
  \/ \E t \in Threads : LeaveAccess(t)

SpecMutex == InitMutex /\ [][NextMutex]_vars

(***************************************************************************)
(* Claims on the node table (SpecTable).                                   *)
(***************************************************************************)
RecordsOf(map, id) == {i \in 1..Len(map) : map[i].hash = IdentHash(id)}

\* C1: in every reachable state the node table holds at most one record per
\* identity hash and holds no record for the local identity.
NodeTableUniqueAndNoLocal ==
  /\ \A i, j \in 1..Len(m_nodes_) :
       m_nodes_[i].hash = m_nodes_[j].hash => i = j
  /\ \A i \in 1..Len(m_nodes_) : m_nodes_[i].ident # LocalId

\* C2: the step on which addNode(identity) returns gives true exactly when
\* the identity is absent from the table and is not the local identity; after
\* a true result findNode(hash) returns that node; a false result (so every
\* second addNode of an identity) leaves the table unchanged.
AddNodeReturnStep(t) ==
  (pc[t] \in {"addNode", "insert"} /\ pc'[t] = "done") =>
    /\ ret'[t] = (/\ FindNode(m_nodes_, IdentHash(arg[t])) = NoNode
                  /\ arg[t] # LocalId)
    /\ ret'[t] => FindNode(m_nodes_', IdentHash(arg[t])) = NewNode(arg[t])
    /\ ~ret'[t] => m_nodes_' = m_nodes_

AddNodeResult == [][\A t \in Threads : AddNodeReturnStep(t)]_vars

\* C2 witness: one call returned true and findNode gives its node, while a
\* second call of the same identity, entered afterwards, returned false.
AddNodeResultWitness ==
  \E t1, t2 \in Threads :
    /\ t1 # t2
    /\ pc[t1] = "done" /\ pc[t2] = "done"
    /\ arg[t1] = arg[t2] /\ arg[t1] \in Peers
    /\ ret[t1] /\ ~ret[t2] /\ ~absentAtCall[t2]
    /\ FindNode(m_nodes_, IdentHash(arg[t1])) = NewNode(arg[t1])

\* Two finished calls of addNode that were both entered with the same
\* non-local identity while it was absent, with no loadNodes in between.
ConcurrentPair(t1, t2) ==
  /\ t1 # t2
  /\ pc[t1] = "done" /\ pc[t2] = "done"
  /\ arg[t1] = arg[t2] /\ arg[t1] \in Peers
  /\ absentAtCall[t1] /\ absentAtCall[t2]
  /\ loadResult = "none"

\* C3: when two threads call addNode concurrently with the same non-local,
\* previously absent identity, exactly one call returns true (never both,
\* and exactly one of all the calls made for that identity) and the table
\* ends with exactly one record for it.
ConcurrentAddNodeOnce ==
  \A t1, t2 \in Threads :
    ConcurrentPair(t1, t2) =>
      /\ ~(ret[t1] /\ ret[t2])
      /\ trueReturns[arg[t1]] = 1
      /\ Cardinality(RecordsOf(m_nodes_, arg[t1])) = 1

\* C3 witness: both concurrent calls have returned.
ConcurrentAddNodeWitness ==
  \E t1, t2 \in Threads : ConcurrentPair(t1, t2) /\ ret[t1] /\ ~ret[t2]

(***************************************************************************)
(* Claims on the packet dispatcher (SpecDispatch).                         *)
(***************************************************************************)
\* What C4 asks of one turn of the dispatcher on a datagram that parses.
\* The turns of the dispatcher are the steps that leave the registry alone;
\* rx' holds the datagram taken.
DeliveryStep ==
  LET packet == [k \in DOMAIN NoPacket |-> rx'.dgram[k]]
      hit == BatchesOfCid(runningBatches, batches, rx'.dgram.cid)
  IN (runningBatches' = runningBatches /\ rx'.parsed) =>
       IF hit # {}
       THEN /\ \E b \in hit :
                 /\ rx'.toBatch = {b}
                 /\ packet \in batches'[b].responses
                 /\ \A c \in BatchIds \ {b} : batches'[c] = batches[c]
            /\ rx'.handler = "none"
            /\ rx'.dht = "none"
            /\ rx'.sent = <<>>
            /\ m_nodes_' = m_nodes_
       ELSE /\ batches' = batches
            /\ rx'.toBatch = {}
            /\ rx'.dgram.type \in DOMAIN incomingPacketHandlers_
            /\ rx'.handler = incomingPacketHandlers_[rx'.dgram.type]

\* C4: a parsed inbound packet goes to exactly one consumer: to one
\* registered batch holding its CID when there is one, and then no handler
\* runs, nothing is answered and the node table is left alone; otherwise to
\* no batch and to the handler registered for its type, so the handler
\* lookup is always reached.
DeliveredToExactlyOne == [][DeliveryStep]_vars

\* a find-close-peers request whose CID is that of a registered batch was
\* handed to the batch
DeliveredToExactlyOneWitness ==
  /\ rx.parsed
  /\ rx.dgram.type = "F"
  /\ rx.dgram.ver = 4
  /\ rx.toBatch = {"lookup"}
  /\ "lookup" \in runningBatches
  /\ responseCount(batches["lookup"]) = 1

\* C9: a find-close-peers request of version 4 or 5 that no batch takes is
\* passed to receiveFindClosePeers and, the table holding a node, answered
\* OK with a peer list of the request's version listing the table.
FindClosePeersAnswered ==
  ( /\ rx.parsed
    /\ rx.toBatch = {}
    /\ rx.dgram.type = "F"
    /\ rx.dgram.ver \in {4, 5}
    /\ m_nodes_ # <<>> ) =>
      /\ rx.dht = "receiveFindClosePeers"
      /\ Len(rx.sent) = 1
      /\ rx.sent[1].status = "OK"
      /\ rx.sent[1].data = PeerListData(rx.dgram.ver, m_nodes_)

\* C10: the answer of receiveRetrieveRequest is one response to the
\* requester under the request's CID: OK with exactly the bytes stored under
\* the key in the class when the class is I, E or C and bytes are stored,
\* NO_DATA_FOUND with no payload when the class is I, E or C and nothing is
\* stored, INVALID_PACKET with no payload for any other data type.
RetrieveAnswer ==
  rx.dht = "receiveRetrieveRequest" =>
    /\ Len(rx.sent) = 1
    /\ rx.sent[1].to = rx.dgram.from
    /\ rx.sent[1].cid = rx.dgram.cid
    /\ IF rx.dgram.dataType \in {"I", "E", "C"}
       THEN IF dht_storage_[rx.dgram.dataType][rx.dgram.key] # NoData
            THEN /\ rx.sent[1].status = "OK"
                 /\ rx.sent[1].data = dht_storage_[rx.dgram.dataType][rx.dgram.key]
            ELSE /\ rx.sent[1].status = "NO_DATA_FOUND"
                 /\ rx.sent[1].data = NoData
       ELSE /\ rx.sent[1].status = "INVALID_PACKET"
            /\ rx.sent[1].data = NoData

\* a stored email packet was retrieved
RetrieveAnswerWitness ==
  /\ rx.dht = "receiveRetrieveRequest"
  /\ rx.dgram.dataType = "E"
  /\ dht_storage_["E"][rx.dgram.key] # NoData
  /\ rx.sent[1].status = "OK"

\* C11: a request Q, Y, S, D, X or F that reached its DHT handler was
\* answered with exactly one response, sent to the sender of the request
\* and bearing the CID of the request.
OneResponsePerRequest ==
  rx.dht # "none" =>
    /\ rx.dgram.type \in {"Q", "Y", "S", "D", "X", "F"}
    /\ Len(rx.sent) = 1
    /\ rx.sent[1].to = rx.dgram.from
    /\ rx.sent[1].cid = rx.dgram.cid

\* a find-close-peers request under the CID of a batch that is not
\* registered reached receiveFindClosePeers and was answered under that CID
OneResponsePerRequestWitness ==
  /\ rx.dht = "receiveFindClosePeers"
  /\ rx.dgram.cid # StrayCid
  /\ Len(rx.sent) = 1
  /\ rx.sent[1].cid = rx.dgram.cid
  /\ rx.sent[1].to = ToBase64(1)

\* What C12 asks of the turn of the dispatcher that runs
\* receiveEmailPacketDeleteRequest: the email packet under the key is erased
\* and OK is answered when a packet is stored and the SHA-256 of the token
\* is its delete-verification hash; otherwise the store is left alone and
\* NO_DATA_FOUND is answered.
EmailDeleteStep ==
  LET key == rx'.dgram.key
      stored == getEmail(dht_storage_, key)
      authorized == /\ stored # NoData
                    /\ Sha256(rx'.dgram.delAuth) = DeleteHashOf(stored)
  IN ( /\ runningBatches' = runningBatches
       /\ rx'.dht = "receiveEmailPacketDeleteRequest"
       /\ key \in Keys ) =>
       IF authorized
       THEN /\ getEmail(dht_storage_', key) = NoData
            /\ rx'.sent[1].status = "OK"
       ELSE /\ dht_storage_' = dht_storage_
            /\ rx'.sent[1].status = "NO_DATA_FOUND"

\* C12: a D request erases the stored encrypted email exactly when it
\* exists and the SHA-256 of the delete-auth token equals its stored
\* delete-verification hash; the response is OK exactly when it was erased
\* and NO_DATA_FOUND otherwise.
EmailDeletedIffAuthorized == [][EmailDeleteStep]_vars

\* C13: after a DHT handler processed a request whose sender is a valid
\* identity other than the local one, the node table holds the sender.
SenderInTableAfterHandler ==
  ( /\ rx.dht # "none"
    /\ FromBase64(rx.dgram.from) \notin {NoIdent, LocalId} ) =>
      \E i \in 1..Len(m_nodes_) :
         m_nodes_[i].ident = FromBase64(rx.dgram.from)

\* a store request of a peer that the table did not hold at the start was
\* handled and the peer is in the table
SenderInTableAfterHandlerWitness ==
  /\ rx.dht = "receiveStoreRequest"
  /\ FromBase64(rx.dgram.from) = 1
  /\ FindNode(m_nodes_, IdentHash(1)) = NewNode(1)

\* What C14 asks of one turn of the dispatcher on a datagram that does not
\* parse or whose type tag has no handler in incomingPacketHandlers_.
UnparsedStep ==
  ( /\ runningBatches' = runningBatches
    /\ \/ ~rx'.parsed
       \/ rx'.dgram.type \notin DOMAIN incomingPacketHandlers_ ) =>
      /\ ~rx'.ret
      /\ rx'.sent = <<>>
      /\ rx'.toBatch = {}
      /\ m_nodes_' = m_nodes_
      /\ batches' = batches

\* C14: for a datagram that cannot be parsed or whose type tag has no
\* registered handler, handleNewPacket returns false, sends no response and
\* leaves the node table as it was.
UnparsedDropped == [][UnparsedStep]_vars

\* a datagram with the right prefix and a type tag of no handler, from a
\* peer that the table does not hold, was taken and dropped
UnparsedDroppedWitness ==
  /\ rx.dgram.type = "?"
  /\ rx.dgram.from = ToBase64(1)
  /\ ~rx.parsed
  /\ ~rx.ret
  /\ rx.sent = <<>>
  /\ FindNode(m_nodes_, IdentHash(1)) = NoNode

\* C15: a parsed packet that no batch took and whose type has no DHT
\* handler is answered with one INVALID_PACKET response, except the relay
\* packets R and K, for which nothing is sent.
NoHandlerAnsweredInvalid ==
  ( /\ rx.parsed
    /\ rx.toBatch = {}
    /\ rx.dgram.type \notin {"Q", "Y", "S", "D", "X", "F"} ) =>
      IF rx.dgram.type \in {"R", "K"}
      THEN rx.sent = <<>>
      ELSE /\ Len(rx.sent) = 1
           /\ rx.sent[1].status = "INVALID_PACKET"

(***************************************************************************)
(* Claims on the peer-list conversion (SpecPeerList).                      *)
(***************************************************************************)
\* C16: a peer list encoded by receiveFindClosePeers and decoded by the
\* receiver of its version on a node that knows none of the nodes yields
\* the same sequence of identities, whatever the length of the list.
PeerListRoundTrip ==
  peerList.pc = "decoded" =>
    peerList.out = [i \in 1..Len(peerList.nodes) |->
                      ToBuffer(peerList.nodes[i])]

(***************************************************************************)
(* Claims on the send round (SpecSend, SpecSendLive).                      *)
(***************************************************************************)
\* the round loaded the mail
Loaded(m) == \E i \in 1..Len(outbox) : outbox[i].id = m

\* the send thread is between two rounds, or has returned
RoundOver == spc \in {"loop", "done"}

\* C17: when every node that answered a store returned a status other than
\* OK, store returns an empty list and the send round marks the email as
\* skipped.
StoreEmptyWithoutOK ==
  \A i \in 1..Len(outbox) :
    ( /\ outbox[i].storeCalled
      /\ outbox[i].storeReplies # {}
      /\ "OK" \notin outbox[i].storeReplies ) =>
        /\ outbox[i].nodes = <<>>
        /\ outbox[i].skip

\* no stage of the round skipped the email: both addresses parsed, the
\* ciphertext is not empty, and the store of the email packet and the store
\* of the index packet each returned a responder
NoStageSkipped(email) ==
  /\ mailFiles[email.id].to
  /\ mailFiles[email.id].from
  /\ Encrypt(email.id, mailFiles[email.id]) # NoCipher
  /\ email.storeCalled
  /\ email.nodes # <<>>
  /\ email.indexCalled
  /\ email.indexNodes # <<>>

\* no stage ran for the email after the one that skipped it
NoStageAfterSkip(email) ==
  /\ (~mailFiles[email.id].to \/ ~mailFiles[email.id].from) =>
        email.encrypted = NoEncrypted
  /\ email.encrypted = NoEncrypted => ~email.storeCalled
  /\ (~email.storeCalled \/ email.nodes = <<>>) => ~email.indexCalled

\* C18: at the end of a send round an email of the round is in sent/
\* exactly when no stage skipped it; a skipped email is still in outbox/,
\* and no stage ran for it after the one that skipped it.
SentIffNoStageSkipped ==
  RoundOver =>
    \A i \in 1..Len(outbox) :
      /\ outbox[i].id \in sentDir <=> NoStageSkipped(outbox[i])
      /\ outbox[i].id \in outboxDir <=> ~NoStageSkipped(outbox[i])
      /\ outbox[i].skip <=> ~NoStageSkipped(outbox[i])
      /\ NoStageAfterSkip(outbox[i])

\* a round ended with one email moved to sent/ and another, whose email
\* packet no node took, left in outbox/
SentIffNoStageSkippedWitness ==
  /\ RoundOver
  /\ \E i, j \in 1..Len(outbox) :
       /\ outbox[i].id \in sentDir
       /\ outbox[i].indexNodes # <<>>
       /\ outbox[j].id \in outboxDir
       /\ outbox[j].storeCalled
       /\ outbox[j].nodes = <<>>
       /\ ~outbox[j].indexCalled

\* C19: while the email worker runs, an email that a send round loaded and
\* left in outbox/ is loaded again by the following round, round after
\* round, until a round moves it to sent/.
SkippedEmailRetried ==
  \A m \in Mails :
    (RoundOver /\ Loaded(m) /\ m \in outboxDir)
      ~> (~email_started_ \/ (spc = "encrypt" /\ Loaded(m)))

\* a mail that earlier rounds loaded and left in outbox/ is loaded again
\* while the worker runs
SkippedEmailRetriedWitness ==
  \E m \in Mails :
    /\ email_started_
    /\ spc = "encrypt"
    /\ Loaded(m)
    /\ loads[m] = MaxLoads
    /\ mailFiles[m].to /\ mailFiles[m].from /\ mailFiles[m].cipherLen = 40

\* C20: for every email that the send round stores, the 16-bit length of
\* the encrypted packet is the number of ciphertext bytes and the DHT key
\* is the SHA-256 over the two bytes of that number, big-endian, followed
\* by the ciphertext.
EmailKeyOverRealLength ==
  \A i \in 1..Len(outbox) :
    outbox[i].storeCalled =>
      LET e == outbox[i].encrypted
      IN /\ e.length = e.edata.size
         /\ e.key = Sha256Data(<<e.edata.size \div 256, e.edata.size % 256>>,
                               e.edata)

(***************************************************************************)
(* Claims on the client verbs (SpecVerb).                                  *)
(***************************************************************************)
\* the verb thread is past the node count test of find or store
PastNodeTest == vpc \in {"verb_wait", "verb_loop", "verb_resend", "returned"}

\* C5: when closestNodesLookupTask has returned its batch is not registered,
\* and when find or store has returned neither its batch nor that of its
\* lookup is registered, whether responses came, every wait timed out or
\* the nodes were too few.
BatchRemovedAtReturn ==
  /\ vpc = "verb_nodes" => "lookup" \notin runningBatches
  /\ vpc = "returned" => runningBatches = {}

\* a verb has returned after all its waits went by without a response, and
\* so had a round of its lookup
BatchRemovedAtReturnWitness ==
  /\ vpc = "returned"
  /\ sends = 6
  /\ result = <<>>
  /\ exec_duration > 0
  /\ runningBatches = {}

RetransmitStep == vpc = "verb_loop" /\ vpc' = "verb_resend"

\* C7: find and store send their batch again only when the batch holds no
\* response after the wait before, never after a wait of the call that
\* ended with a response, and never for a sixth time.
RetransmitOnlyWithoutResponse ==
  [][RetransmitStep =>
       /\ responseCount(batches["verb"]) = 0
       /\ ~waitHadResponse
       /\ sends - 1 < 5]_vars

\* a verb got its first response after two retransmissions
RetransmitOnlyWithoutResponseWitness ==
  /\ vpc = "returned"
  /\ sends = 3
  /\ waitHadResponse
  /\ result # <<>>

Verified(packet) ==
  /\ ~packet.edata.empty
  /\ packet.edata.ok
  /\ Sha256(packet.edata.DA) = packet.delete_hash

PacketsOfRound == {enc_mail_packets[i] : i \in 1..Len(enc_mail_packets)}

\* C21: every email a check round saves to inbox or asks the DHT to delete
\* comes from a packet of the round that decrypted and whose
\* delete-verification hash is the SHA-256 of the decrypted delete-auth; a
\* packet that fails either yields no inbox file and no delete request, and
\* at the end of the round every verified packet with an email is delivered.
CheckedEmailsVerified ==
  /\ \A mail \in inbox :
       /\ mail.encrypted \in PacketsOfRound
       /\ Verified(mail.encrypted)
       /\ mail.DA = mail.encrypted.edata.DA
  /\ \A d \in deleteRequests :
       \E packet \in PacketsOfRound :
         packet.key = d.key /\ Verified(packet) /\ d.DA = packet.edata.DA
  /\ \A packet \in PacketsOfRound :
       ~Verified(packet) =>
         /\ \A mail \in inbox : mail.encrypted.key # packet.key
         /\ \A d \in deleteRequests : d.key # packet.key
  /\ (cpc = "loop" /\ enc_mail_packets # <<>>) =>
       \A packet \in PacketsOfRound :
         (Verified(packet) /\ packet.edata.body) =>
           /\ \E mail \in inbox : mail.encrypted = packet
           /\ DeleteRequestsOf([DA |-> packet.edata.DA,
                                encrypted |-> packet]) \subseteq deleteRequests

\* a round is over whose first packet decrypted to an email with another
\* delete-auth than its hash promises, and whose second packet was delivered
CheckedEmailsVerifiedWitness ==
  /\ cpc = "loop"
  /\ Len(enc_mail_packets) = 2
  /\ enc_mail_packets[1].edata.ok
  /\ enc_mail_packets[1].edata.body
  /\ ~Verified(enc_mail_packets[1])
  /\ \E mail \in inbox : mail.encrypted = enc_mail_packets[2]
  /\ \E d \in deleteRequests : d.key = 2

(***************************************************************************)
(* Claims on the threads of EmailWorker (SpecWorker, SpecWorkerLive).      *)
(***************************************************************************)
\* the threads that are running run()
RunningSupervisors ==
  {s \in 1..Len(supervisors) : supervisors[s] # "done"}

\* C22: at any time at most one supervisor thread, at most one send thread
\* and at most one check thread per identity name are running.
AtMostOneThreadEach ==
  /\ Cardinality(RunningSupervisors) <= 1
  /\ sendLive <= 1
  /\ \A n \in DOMAIN checkLive : checkLive[n] <= 1

\* C23: when an identity is no longer in the context while the worker is
\* started and its check thread runs, the supervisor eventually has stopped
\* that thread and is back at the head of its loop, unless the worker is
\* stopped or the identity comes back first.
RemovedIdentityStopped ==
  \A n \in IdNames :
    (/\ email_started_
     /\ n \notin email_identities
     /\ checkLive[n] > 0)
      ~> (\/ /\ checkLive[n] = 0
             /\ \E s \in RunningSupervisors : supervisors[s] = "while"
          \/ ~email_started_
          \/ n \in email_identities)

(***************************************************************************)
(* Claims on stop() (SpecStop).                                            *)
(***************************************************************************)
\* C24: after stop() is called on RequestHandler or DHTworker the worker
\* thread of the component eventually ends and stop() returns, whether or
\* not another datagram arrives.
StopReturns ==
  /\ (hpc = "join") ~> (hpc = "stopped" /\ m_PHandlerThread = "null")
  /\ (dpc = "join") ~> (dpc = "stopped" /\ dht_worker_thread_ = "null")

(***************************************************************************)
(* Claims on loading and saving the node table (SpecTable).                *)
(***************************************************************************)
\* the identities of the lines readNodes returns for a file
IdsOfFile(file) ==
  [i \in 1..Len(readNodes(file)) |-> FromBase64(readNodes(file)[i])]

\* a step of DHTworker::start
StartStep ==
  (~started_ /\ started_') =>
    \E file \in FilesAtStart, addrs \in BootstrapOptions :
      LET loaded == InsertAll(m_nodes_, IdsOfFile(file))
      IN /\ m_nodes_' = IF Len(loaded) = Len(m_nodes_)
                        THEN AddBootstrap(loaded, addrs)
                        ELSE loaded
         /\ loadResult' = "false" => m_nodes_' = <<>>

\* C25: at start the bootstrap addresses are added to the node table exactly
\* when no node was loaded from nodes.txt, and loadNodes reports failure only
\* when the node table is empty afterwards.
BootstrapIffNothingLoaded == [][StartStep]_vars

\* a step of writeNodes: what readNodes and loadNodes make of the new file
WriteNodesStep ==
  (nodesFile' # nodesFile) =>
    /\ Len(readNodes(nodesFile')) = Len(m_nodes_)
    /\ \A i \in 1..Len(m_nodes_) :
         readNodes(nodesFile')[i] = ToBase64(m_nodes_[i].ident)
    /\ Hashes(loadNodes(<<>>, nodesFile', <<>>).map) = Hashes(m_nodes_)

\* C26: readNodes after writeNodes returns one line per node of the table,
\* the node's base64 identity, without the header and blank lines, and
\* loading the lines into an empty table gives the same identity hashes.
NodesFileRoundTrip == [][WriteNodesStep]_vars

\* nodes.txt was written for a table of two nodes
NodesFileRoundTripWitness ==
  /\ nodesFile.exists
  /\ Len(m_nodes_) = 2
  /\ nodesFile = FileOfNodes(m_nodes_)
  /\ Len(readNodes(nodesFile)) = 2

(***************************************************************************)
(* Claims on uncorrelated responses (SpecResponse).                        *)
(***************************************************************************)
\* the length the payload of the response declares for its data
DeclaredLen == resp.payload[2] * 256 + resp.payload[3]

\* C27: receiveResponsePkt reads no byte outside the payload it was given,
\* and none outside its copy of the data, whatever length the payload
\* declares: more than the bytes that follow, or 0.
ResponseReadsInside ==
  resp.pc = "done" =>
    /\ resp.read \subseteq 1..Len(resp.payload)
    /\ resp.dataRead \subseteq 0..(DeclaredLen - 1)
    /\ resp.ret # "none"

(***************************************************************************)
(* Claims on getClosestNodes (SpecClosest).                                *)
(***************************************************************************)
\* the distance of a node of the call from the routing key of its key
MetricOf(node) == Xor(CreateRoutingKey(closestCall.key), node.hash)

ReturnedNodes == {closestCall.res[i] : i \in 1..Len(closestCall.res)}
TableNodes == {closestCall.nodes[i] : i \in 1..Len(closestCall.nodes)}

\* C28: getClosestNodes returns at most num nodes, all of them unlocked nodes
\* of the table, in ascending distance from the routing key of the key; no
\* unlocked node that is left out is strictly closer than a returned one;
\* and with to_us no returned node is strictly farther than the local node.
ClosestNodesSorted ==
  closestCall.pc = "done" =>
    /\ Len(closestCall.res) <= closestCall.num
    /\ \A node \in ReturnedNodes : node \in TableNodes /\ ~node.locked
    /\ \A i, j \in 1..Len(closestCall.res) :
         i < j => MetricOf(closestCall.res[i]) < MetricOf(closestCall.res[j])
    /\ \A out \in TableNodes \ ReturnedNodes :
         ~out.locked =>
           \A node \in ReturnedNodes : ~(MetricOf(out) < MetricOf(node))
    /\ closestCall.to_us =>
         \A node \in ReturnedNodes :
           ~(MetricOf(node) > MetricOf([hash |-> IdentHash(LocalId)]))

\* a call with to_us returned two nodes and left out an unlocked node that
\* is nearer than the local node, and a locked one
ClosestNodesSortedWitness ==
  /\ closestCall.pc = "done"
  /\ closestCall.to_us
  /\ Len(closestCall.res) = 2
  /\ \E out \in TableNodes \ ReturnedNodes :
       /\ ~out.locked
       /\ MetricOf(out) < MetricOf([hash |-> IdentHash(LocalId)])
  /\ \E out \in TableNodes : out.locked

(***************************************************************************)
(* Claims on the node-table mutex (SpecMutex).                             *)
(***************************************************************************)
\* C29: no thread is at the node-table map while another thread inserts into
\* it: every thread that is at the map, to insert or to read, holds the
\* node-table mutex.
NodeTableUnderMutex ==
  /\ \A t \in DOMAIN access :
       access[t] # NoAccess => m_nodes_mutex_ = t
  /\ \A t1, t2 \in DOMAIN access :
       (t1 # t2 /\ access[t1].insert) => access[t2] = NoAccess

(***************************************************************************)
(* Claims on the end of the lookup (SpecLookupLive).                       *)
(***************************************************************************)
\* a step of the loop of closestNodesLookupTask: a round starts only with
\* requests unanswered and time left, and the round whose responses reach
\* MIN_CLOSEST_NODES is the last
LookupRoundStep ==
  /\ (vpc = "lookup_loop" /\ vpc' = "lookup_wait") =>
       /\ active_requests # {}
       /\ exec_duration < CLOSEST_NODES_LOOKUP_TIMEOUT
  /\ (vpc = "lookup_wait" /\ vpc' # vpc) =>
       IF Len(responses') >= MIN_CLOSEST_NODES
       THEN vpc' = "lookup_parse"
       ELSE vpc' = "lookup_loop"

\* C30: closestNodesLookupTask always reaches its end; it starts a round
\* only while active_requests is not empty and less than
\* CLOSEST_NODES_LOOKUP_TIMEOUT has passed, and it leaves the loop at the
\* first round whose responses number MIN_CLOSEST_NODES.
LookupTerminates ==
  /\ [][LookupRoundStep]_vars
  /\ (vpc = "lookup_start") ~> (vpc = "verb_nodes")

\* a lookup has ended on the time limit with a request still unanswered
\* after a round that brought a response
LookupTerminatesWitness ==
  /\ vpc = "verb_nodes"
  /\ active_requests # {}
  /\ exec_duration >= CLOSEST_NODES_LOOKUP_TIMEOUT
  /\ lookupCount > 0

(***************************************************************************)
(* Claims on what a lookup learns (SpecVerb).                              *)
(***************************************************************************)
\* the identities that the OK peer-list responses of a list of responses
\* name, the local identity and unparsable entries left out
ListedIdents(resps) ==
  UNION {{resps[i].data.nodes[j] : j \in 1..Len(resps[i].data.nodes)} :
           i \in {k \in 1..Len(resps) :
                    /\ resps[k].type = "N"
                    /\ resps[k].status = "OK"
                    /\ resps[k].data.tag \in {"L", "P"}
                    /\ resps[k].data.ver \in {4, 5}}}
  \ {LocalId, NoIdent}

\* the identities of the node table when the lookup under way was entered:
\* those it built a request for
TableAtLookupStart ==
  {FromBase64(q.dest) : q \in batches["lookup"].packets}

\* the identities a sequence names
RangeOf(seq) == {seq[i] : i \in 1..Len(seq)}

\* the step on which closestNodesLookupTask returns: the listed identities
\* are in the table, and those absent from the table at the given earlier
\* moment are in the list returned
LookupLearnsStep(before) ==
  (vpc = "lookup_parse" /\ vpc' = "verb_nodes") =>
    \A id \in ListedIdents(responses) :
      /\ FindNode(m_nodes_', IdentHash(id)) # NoNode
      /\ id \notin before => id \in RangeOf(closestNodes')

TableNow == RangeOf(IdentsOf(m_nodes_))

Freed == [ident |-> NoIdent, locked |-> FALSE, health |-> 0]

\* a Node object
NodeObject(id, locked) == [ident |-> id, locked |-> locked, health |-> 0]

\* Node::gotResponse: the response counter goes up and the lock is cleared
gotResponse(node) == [node EXCEPT !.health = @ + 1, !.locked = FALSE]

\* getAllNodes: a vector of copies of the objects the table points to
getAllNodesCopies(heap, table) == [i \in 1..Len(table) |-> heap[table[i]]]

\* the request loop of closestNodesLookupTask: per node of req_nodes
\* std::make_shared<Node>(node) makes a new object, and active_requests
\* keeps the CID with the pointer to it
MarkRequests(heap, req_nodes) ==
  [heap |-> heap \o req_nodes,
   active |-> {[cid |-> i, peer |-> Len(heap) + i] : i \in 1..Len(req_nodes)}]

\* the response loop for one response: the object that active_requests
\* holds for the CID gets gotResponse(); the erase drops the last pointer
\* to it and the object is destroyed
MarkOneResponse(heap, active, cid) ==
  IF \E r \in active : r.cid = cid
  THEN LET r == CHOOSE x \in active : x.cid = cid
           marked == [heap EXCEPT ![r.peer] = gotResponse(@)]
       IN [heap |-> [marked EXCEPT ![r.peer] = Freed],
           active |-> active \ {r}]
  ELSE [heap |-> heap, active |-> active]

\* closestNodesLookupTask up to its loop
MarkStart ==
  /\ markCall.pc = "start"
  /\ LET req_nodes == getAllNodesCopies(markCall.heap, markCall.m_nodes_)
         built == MarkRequests(markCall.heap, req_nodes)
     IN markCall' =
          [markCall EXCEPT
             !.pc = "round",
             !.heap = built.heap,
             !.active_requests = built.active,
             !.asked = {[cid |-> i, node |-> markCall.m_nodes_[i]] :
                          i \in 1..Len(req_nodes)}]
  /\ UNCHANGED markRest

\* a response of the round is handled: one with the CID of a request, or
\* one with another CID
MarkResponse(cid) ==
  /\ markCall.pc = "round"
  /\ cid \notin markCall.answered
  /\ LET done == MarkOneResponse(markCall.heap, markCall.active_requests, cid)
     IN markCall' = [markCall EXCEPT !.heap = done.heap,
                                     !.active_requests = done.active,
                                     !.answered = @ \cup {cid}]
  /\ UNCHANGED markRest

\* the lookup returns
MarkReturn ==
  /\ markCall.pc = "round"
  /\ markCall' = [markCall EXCEPT !.pc = "returned"]
  /\ UNCHANGED markRest

InitMark ==
  /\ OldIdle
  /\ EntryIdle
  /\ RetrievalIdle
  /\ LookupsIdle
  /\ \E n \in 0..MIN_CLOSEST_NODES :
       \E locked \in [1..n -> BOOLEAN] :
         markCall = [pc |-> "start",
                     heap |-> [i \in 1..n |-> NodeObject(i, locked[i])],
                     m_nodes_ |-> [i \in 1..n |-> i],
                     active_requests |-> {},
                     asked |-> {},
                     answered |-> {}]

NextMark ==
  \/ MarkStart
  \/ \E cid \in 1..(MIN_CLOSEST_NODES + 1) : MarkResponse(cid)
  \/ MarkReturn

SpecMark == InitMark /\ [][NextMark]_vars

(***************************************************************************)
(* Claim on the response mark (SpecMark).                                  *)
(***************************************************************************)
\* C32: when the lookup has handled a response whose CID is that of one of
\* its requests, the node-table record of the node asked with that CID is
\* marked as responsive (its counter has gone up) and the CID is no longer
\* in active_requests.
ResponseMarksTableRecord ==
  \A a \in markCall.asked :
    a.cid \in markCall.answered =>
      /\ markCall.heap[a.node].health >= 1
      /\ \A r \in markCall.active_requests : r.cid # a.cid

(***************************************************************************)
(* SpecEntries: the entry loop of receiveIndexPacketDeleteRequest, step by *)
(* step.  The loop counter is a uint32_t, kept as two halves of 16 bits;   *)
(* offset is a uint16_t; num is the uint8_t read from the request.         *)
(***************************************************************************)
\* the greatest uint8_t
MaxEntries == 255

\* the greatest value of 16 bits
Max16 == 65535

\* uint32_t 0
Zero32 == [hi |-> 0, lo |-> 0]

\* i-- on a uint32_t: 0 becomes 2^32 - 1
Dec32(i) ==
  IF i.lo > 0 THEN [i EXCEPT !.lo = @ - 1]
  ELSE IF i.hi > 0 THEN [hi |-> i.hi - 1, lo |-> Max16]
       ELSE [hi |-> Max16, lo |-> Max16]

\* i < num for a uint32_t i and a uint8_t num, num converted to unsigned
Less32(i, num) == i.hi = 0 /\ i.lo < num

\* offset += 32 on a uint16_t
AddOffset(offset, n) == (offset + n) % (Max16 + 1)

\* the head of the request is read: the 32 bytes of the hash, then num
EntriesStart(num) ==
  /\ entryLoop.pc = "start"
  /\ entryLoop' = [entryLoop EXCEPT !.pc = "test", !.num = num,
                                    !.i = Zero32,
                                    !.offset = AddOffset(AddOffset(0, 32), 1)]
  /\ UNCHANGED entryRest

\* the test of the for loop
EntriesTest ==
  /\ entryLoop.pc = "test"
  /\ entryLoop' = [entryLoop EXCEPT
                     !.pc = IF Less32(entryLoop.i, entryLoop.num)
                            THEN "body" ELSE "done"]
  /\ UNCHANGED entryRest

\* the body of the for loop and its i--: the key and the delete
\* authorisation are read from offset on
EntriesBody ==
  /\ entryLoop.pc = "body"
  /\ entryLoop' = [entryLoop EXCEPT
                     !.pc = "test",
                     !.reads = Append(@, entryLoop.offset),
                     !.offset = AddOffset(AddOffset(@, 32), 32),
                     !.wrapped = @ \/ entryLoop.i = Zero32,
                     !.i = Dec32(@)]
  /\ UNCHANGED entryRest

InitEntries ==
  /\ OldIdle
  /\ MarkIdle
  /\ RetrievalIdle
  /\ LookupsIdle
  /\ entryLoop = [NoEntryLoop EXCEPT !.pc = "start"]

NextEntries ==
  \/ \E num \in 0..MaxEntries : EntriesStart(num)
  \/ EntriesTest
  \/ EntriesBody

SpecEntries == InitEntries /\ [][NextEntries]_vars

(***************************************************************************)
(* Claim on the entry loop (SpecEntries).                                  *)
(***************************************************************************)
\* C33: receiveIndexPacketDeleteRequest parses all entries: for every num
\* from 0 to 255 the loop ends after exactly num rounds, round i reads the
\* pair at offset 33 + 64 * i, and the loop counter never wraps.
AllEntriesParsed ==
  entryLoop.pc = "done" =>
    /\ entryLoop.reads =
         [k \in 1..entryLoop.num |-> 33 + (64 * (k - 1))]
    /\ ~entryLoop.wrapped

(***************************************************************************)
(* Claim on the order of a check round (SpecCheck).                        *)
(***************************************************************************)
\* the places of the round's log with an event of a kind for a key
PlacesOf(what, key) ==
  {k \in 1..Len(checkLog) : checkLog[k].what = what /\ checkLog[k].key = key}

CheckedHash == 1
IndexHashes == {CheckedHash, 2}

\* the keys of email packets
MailKeys == {1, 2}

\* the bytes of a payload or of a stored file: none, too short for a
\* packet, not a packet, or the packet they hold
NoBytes == [empty |-> TRUE, long |-> FALSE, parses |-> FALSE, packet |-> <<>>]
ShortBytes == [NoBytes EXCEPT !.empty = FALSE]
JunkBytes == [ShortBytes EXCEPT !.long = TRUE]
PacketBytes(packet) ==
  [empty |-> FALSE, long |-> TRUE, parses |-> TRUE, packet |-> packet]

\* pbote::IndexPacket: the owner hash, the declared count, the entries
IndexPacket(hash, nump, keys) == [hash |-> hash, nump |-> nump, data |-> keys]

\* IndexPacket::fromBuffer and EmailEncryptedPacket::fromBuffer
fromBuffer(bytes) == [parsed |-> bytes.parses, packet |-> bytes.packet]

\* a response as retrieveIndex and retrieveEmailPacket see it
RetrieveResponse(type, status, bytes) ==
  [type |-> type, status |-> status, payload |-> bytes]

\* the lists of entries an index packet can hold
EntryLists == {<<>>, <<1>>, <<2>>, <<1, 2>>}

\* what findAll(identity_hash, DataI) can return
IndexResponses ==
  {RetrieveResponse("N", "OK", b) :
     b \in {ShortBytes, JunkBytes}
             \cup {PacketBytes(IndexPacket(h, Len(e), e)) :
                     h \in IndexHashes, e \in EntryLists}}
  \cup {RetrieveResponse("N", "NO_DATA_FOUND", NoBytes),
        RetrieveResponse("Q", "", NoBytes)}

IndexResults ==
  {<<>>} \cup {<<r>> : r \in IndexResponses}
         \cup {<<r1, r2>> : r1 \in IndexResponses, r2 \in IndexResponses}

\* what the local store can hold under the owner hash: nothing, bytes that
\* are no packet, an index packet of that owner, also one with fewer
\* entries than it declares; DHT_worker.safe of retrieveIndex may have
\* written it
LocalIndexes ==
  {NoBytes, JunkBytes, PacketBytes(IndexPacket(CheckedHash, 2, <<1>>))}
  \cup {PacketBytes(IndexPacket(CheckedHash, Len(e), e)) : e \in EntryLists}

\* the values of a std::map in key order
MapValues(map) == [i \in 1..Len(map) |-> map[i].packet]

RECURSIVE retrieveIndexLoop(_, _)
\* retrieveIndex, the loop over the responses: a response that is an OK
\* response with a payload that parses to a packet with entries is inserted
\* under the owner hash of the packet, unless the hash is there
retrieveIndexLoop(results, index_packets) ==
  IF results = <<>> THEN index_packets
  ELSE LET response == Head(results)
           got == fromBuffer(response.payload)
           kept == /\ response.type = "N"
                   /\ response.status = "OK"
                   /\ response.payload.long
                   /\ got.parsed
                   /\ got.packet.data # <<>>
       IN retrieveIndexLoop(
            Tail(results),
            IF kept
            THEN MapInsert(index_packets,
                           [hash |-> got.packet.hash,
                            packet |-> got.packet]).map
            ELSE index_packets)

\* EmailWorker::retrieveIndex
retrieveIndex(results) ==
  IF results = <<>> THEN <<>>
  ELSE MapValues(retrieveIndexLoop(results, <<>>))

\* checkEmailTask: the local index is parsed and pushed to the list
MergeLocalIndex(index_packets, local_index_packet) ==
  IF local_index_packet.empty THEN index_packets
  ELSE LET got == fromBuffer(local_index_packet)
       IN IF got.parsed /\ Len(got.packet.data) = got.packet.nump
          THEN Append(index_packets, got.packet)
          ELSE index_packets

\* pbote::EmailEncryptedPacket as far as retrieval looks at it
MailPacket(key, edataEmpty) == [key |-> key, edataEmpty |-> edataEmpty]

\* what findAll(key, DataE) can return for one key: nothing, or the answer
\* of one node
MailResults ==
  {<<>>, <<RetrieveResponse("N", "NO_DATA_FOUND", NoBytes)>>,
   <<RetrieveResponse("N", "OK", JunkBytes)>>}
  \cup {<<RetrieveResponse("N", "OK", PacketBytes(MailPacket(k, e)))>> :
          k \in MailKeys, e \in BOOLEAN}

RECURSIVE EntryKeys(_)
\* the keys of the entries of a list of index packets, in the order of the
\* two loops of retrieveEmailPacket
EntryKeys(index_packets) ==
  IF index_packets = <<>> THEN <<>>
  ELSE Head(index_packets).data \o EntryKeys(Tail(index_packets))

RECURSIVE AllResponses(_, _)
\* responses: what findAll returned for every entry, one after the other
AllResponses(keys, answers) ==
  IF keys = <<>> THEN <<>>
  ELSE answers[Head(keys)] \o AllResponses(Tail(keys), answers)

RECURSIVE LocalMailPackets(_, _)
\* local_email_packets: the stored packets of the entries that parse and
\* have edata
LocalMailPackets(keys, stored) ==
  IF keys = <<>> THEN <<>>
  ELSE LET bytes == stored[Head(keys)]
           got == fromBuffer(bytes)
       IN (IF ~bytes.empty /\ got.parsed /\ ~got.packet.edataEmpty
           THEN <<got.packet>> ELSE <<>>)
          \o LocalMailPackets(Tail(keys), stored)

RECURSIVE MailResponseLoop(_, _)
\* retrieveEmailPacket, the loop over the responses: the packet of an OK
\* response is inserted under the key the packet bears
MailResponseLoop(resps, mail_packets) ==
  IF resps = <<>> THEN mail_packets
  ELSE LET response == Head(resps)
           got == fromBuffer(response.payload)
           kept == /\ response.type = "N"
                   /\ response.status = "OK"
                   /\ ~response.payload.empty
                   /\ got.parsed
                   /\ ~got.packet.edataEmpty
       IN MailResponseLoop(
            Tail(resps),
            IF kept
            THEN MapInsert(mail_packets,
                           [hash |-> got.packet.key,
                            packet |-> got.packet]).map
            ELSE mail_packets)

RECURSIVE MailLocalLoop(_, _)
\* retrieveEmailPacket, the loop over local_email_packets
MailLocalLoop(local_email_packets, mail_packets) ==
  IF local_email_packets = <<>> THEN mail_packets
  ELSE MailLocalLoop(
         Tail(local_email_packets),
         MapInsert(mail_packets,
                   [hash |-> Head(local_email_packets).key,
                    packet |-> Head(local_email_packets)]).map)

\* EmailWorker::retrieveEmailPacket
retrieveEmailPacket(index_packets, answers, stored) ==
  LET keys == EntryKeys(index_packets)
  IN MapValues(MailLocalLoop(
                 LocalMailPackets(keys, stored),
                 MailResponseLoop(AllResponses(keys, answers), <<>>)))

\* the round calls retrieveIndex
RetrieveIndexStep(results) ==
  /\ retrieval.pc = "start"
  /\ retrieval' = [retrieval EXCEPT !.pc = "index",
                                    !.index_packets = retrieveIndex(results)]
  /\ UNCHANGED retrievalRest

\* the round reads the local index and pushes it to the list
MergeStep ==
  /\ retrieval.pc = "index"
  /\ retrieval' =
       [retrieval EXCEPT
          !.pc = "merged",
          !.index_packets =
             MergeLocalIndex(retrieval.index_packets,
                             retrieval.local_index_packet)]
  /\ UNCHANGED retrievalRest

\* the round calls retrieveEmailPacket with the list
RetrieveMailStep(answers, stored) ==
  /\ retrieval.pc = "merged"
  /\ retrieval' =
       [retrieval EXCEPT
          !.pc = "mail",
          !.enc_mail_packets =
             retrieveEmailPacket(retrieval.index_packets, answers, stored)]
  /\ UNCHANGED retrievalRest

InitRetrieve ==
  /\ OldIdle
  /\ MarkIdle
  /\ EntryIdle
  /\ LookupsIdle
  /\ \E local \in LocalIndexes :
       retrieval = [NoRetrieval EXCEPT !.pc = "start",
                                       !.local_index_packet = local]

NextRetrieve ==
  \/ \E results \in IndexResults : RetrieveIndexStep(results)
  \/ MergeStep
  \/ \E answers \in [MailKeys -> MailResults],
        stored \in [MailKeys ->
                      {NoBytes} \cup {PacketBytes(MailPacket(k, FALSE)) :
                                        k \in MailKeys}] :
       /\ \A k \in MailKeys :
            ~stored[k].empty => stored[k].packet.key = k
       /\ RetrieveMailStep(answers, stored)

SpecRetrieve == InitRetrieve /\ [][NextRetrieve]_vars

(***************************************************************************)
(* Claims on the retrieval of a check round (SpecRetrieve).                *)
(***************************************************************************)
\* C35: the list of index packets that the round passes to the retrieval
\* of the emails, after the merge of the retrieved index packets with the
\* local index, holds at most one index packet per owner hash.
OneIndexPerOwner ==
  retrieval.pc \in {"merged", "mail"} =>
    \A i, j \in 1..Len(retrieval.index_packets) :
      retrieval.index_packets[i].hash = retrieval.index_packets[j].hash
        => i = j

\* C40: every encrypted email packet that retrieveEmailPacket returns has
\* the key of an entry of the index packets it was given.
ReturnedKeysRequested ==
  retrieval.pc = "mail" =>
    \A i \in 1..Len(retrieval.enc_mail_packets) :
      \E k \in 1..Len(EntryKeys(retrieval.index_packets)) :
        EntryKeys(retrieval.index_packets)[k]
          = retrieval.enc_mail_packets[i].key

(***************************************************************************)
(* Claims on the nodes and the batch of a verb (SpecVerb).                 *)
(***************************************************************************)
\* C36: the list of nodes that find and store turn into requests names no
\* node twice, also after the node table was appended to the lookup result:
\* the batch holds at most one request per node, and the verb goes past the
\* MIN_CLOSEST_NODES test only with that many nodes that differ.
CandidateNodesDistinct ==
  (PastNodeTest /\ Len(closestNodes) >= MIN_CLOSEST_NODES) =>
    /\ \A i, j \in 1..Len(closestNodes) :
         closestNodes[i] = closestNodes[j] => i = j
    /\ \A q1, q2 \in batches["verb"].packets :
         q1.dest = q2.dest => q1.cid = q2.cid
    /\ Cardinality(RangeOf(closestNodes)) >= MIN_CLOSEST_NODES

\* a batch is between its first context.send and the last removeBatch of
\* its verb
BatchUnderWay(b) ==
  IF b = "verb"
  THEN vpc \in {"verb_wait", "verb_loop", "verb_resend"}
  ELSE \/ vpc = "lookup_wait"
       \/ vpc \in {"lookup_loop", "lookup_parse"} /\ exec_duration > 0

\* C37: from the first transmission of the batch of a verb to the last
\* removeBatch of the verb the batch stays registered, and a response to one
\* of its CIDs that arrives in that time, also between a wait that timed
\* out and the retransmission, goes to the batch and not to the handlers.
ResponsesReachBatch ==
  \A b \in BatchIds :
    BatchUnderWay(b) =>
      /\ b \in runningBatches
      /\ \A dgram \in VerbDgrams :
           dgram.cid \in BatchCids(batches[b]) =>
             handleNewPacket(dgram, runningBatches, batches, m_nodes_,
                             dht_storage_).toBatch = {b}

\* the calling thread is inside closestNodesLookupTask
LookupExecuting ==
  vpc \in {"lookup_start", "lookup_loop", "lookup_wait", "lookup_parse"}

\* C38: active_requests is empty whenever no closestNodesLookupTask is
\* executing: whichever way the loop of a lookup ends (all answered,
\* timeout, MIN_CLOSEST_NODES responses), the requests it inserted are gone
\* when it returns.
ActiveRequestsCleared ==
  ~LookupExecuting => active_requests = {}

(***************************************************************************)
(* SpecLookups: threads that run closestNodesLookupTask at the same time,  *)
(* each for a find or a store of its own.  active_requests is one map of   *)
(* the DHT worker; an access of a thread to it (insert, find, operator[],  *)
(* erase) begins and ends, and the function takes no lock around it.  The  *)
(* outcome of an access that overlapped another one is undefined: it may   *)
(* or may not have had its effect.                                         *)
(***************************************************************************)
\* a thread outside closestNodesLookupTask
NoLookupThread == [pc |-> "none", todo |-> <<>>, asked |-> 0, resp |-> <<>>,
                   got |-> 0, inside |-> FALSE, raced |-> FALSE]

\* the CID of the request of thread t to node n: random bytes, so no two
\* requests share one
CidOf(t, n) == <<t, n>>

\* the keys of the map
CidsIn(map) == {e.cid : e \in map}

\* the lines of closestNodesLookupTask that access active_requests
AccessLines == {"insert", "find", "index", "erase"}

\* the thread goes on after a response: to the next response, or, after the
\* last, to the break on MIN_CLOSEST_NODES responses or to the loop test
AfterResponse(th) ==
  [th EXCEPT !.resp = Tail(th.resp),
             !.pc = IF Tail(th.resp) # <<>> THEN "find"
                    ELSE IF th.got >= MIN_CLOSEST_NODES THEN "returned"
                    ELSE "loop",
             !.inside = FALSE, !.raced = FALSE]

\* the maps an access of thread t can leave, with the thread after it: the
\* insert of the request to the next node, the find and the operator[] and
\* the erase of the CID of the response at hand.  An access that overlapped
\* another one may also have had no effect, and its find either result.
AccessOutcomes(map, t, th) ==
  LET both(set) == IF th.raced THEN set \cup {map} ELSE set
      done(next) == [th EXCEPT !.pc = next, !.inside = FALSE,
                               !.raced = FALSE]
  IN CASE th.pc = "insert" ->
            LET e == [cid |-> CidOf(t, Head(th.todo)),
                      node |-> Head(th.todo)]
                after == [done(IF Tail(th.todo) # <<>> THEN "insert"
                               ELSE "loop") EXCEPT !.todo = Tail(th.todo)]
            IN {[map |-> m, th |-> after] : m \in both({map \cup {e}})}
       [] th.pc = "find" ->
            LET found == IF th.raced THEN BOOLEAN
                         ELSE {Head(th.resp) \in CidsIn(map)}
            IN {[map |-> map,
                 th |-> IF f THEN done("index") ELSE AfterResponse(th)] :
                  f \in found}
       [] th.pc = "index" ->
            {[map |-> IF Head(th.resp) \in CidsIn(map) THEN map
                      ELSE map \cup {[cid |-> Head(th.resp),
                                      node |-> NoIdent]},
              th |-> done("erase")]}
       [] th.pc = "erase" ->
            {[map |-> m, th |-> AfterResponse(th)] :
               m \in both({{e \in map : e.cid # Head(th.resp)}})}

\* the sequence of the members of a set of nodes, in ascending order
RECURSIVE Ascending(_)
Ascending(set) ==
  IF set = {} THEN <<>>
  ELSE LET least == CHOOSE n \in set : \A o \in set : n <= o
       IN <<least>> \o Ascending(set \ {least})

\* a thread enters closestNodesLookupTask with a table of n nodes
LookupThreadCall(t, n) ==
  /\ lookupThreads.th[t].pc = "none"
  /\ lookupThreads' =
       [lookupThreads EXCEPT
          !.th[t] = [NoLookupThread EXCEPT
                       !.pc = IF n = 0 THEN "loop" ELSE "insert",
                       !.todo = Ascending(1..n), !.asked = n]]
  /\ UNCHANGED lookupsRest

\* a thread begins its access to active_requests: nothing makes it wait,
\* and it overlaps the accesses that are under way
BeginAccess(t) ==
  /\ lookupThreads.th[t].pc \in AccessLines
  /\ ~lookupThreads.th[t].inside
  /\ LET others == {o \in Threads \ {t} : lookupThreads.th[o].inside}
     IN lookupThreads' =
          [lookupThreads EXCEPT
             !.th = [o \in Threads |->
                       IF o = t
                       THEN [@[o] EXCEPT !.inside = TRUE,
                                         !.raced = others # {}]
                       ELSE IF o \in others
                       THEN [@[o] EXCEPT !.raced = TRUE]
                       ELSE @[o]]]
  /\ UNCHANGED lookupsRest

\* the access ends
EndAccess(t) ==
  /\ lookupThreads.th[t].inside
  /\ \E out \in AccessOutcomes(lookupThreads.active_requests, t,
                               lookupThreads.th[t]) :
       lookupThreads' = [lookupThreads EXCEPT !.active_requests = out.map,
                                              !.th[t] = out.th]
  /\ UNCHANGED lookupsRest

\* the loop test and, in the loop, the wait: the batch has the responses
\* to some of the requests of the thread, which the thread goes through;
\* without a response the round ends
LookupThreadLoop(t, expired, answered) ==
  /\ lookupThreads.th[t].pc = "loop"
  /\ LET th == lookupThreads.th[t]
     IN lookupThreads' =
          [lookupThreads EXCEPT
             !.th[t] =
               IF lookupThreads.active_requests = {} \/ expired
               THEN [th EXCEPT !.pc = "returned"]
               ELSE IF answered = {} THEN th
               ELSE [th EXCEPT
                       !.pc = "find",
                       !.resp = [i \in 1..Cardinality(answered) |->
                                   CidOf(t, Ascending(answered)[i])],
                       !.got = Cardinality(answered)]]
  /\ UNCHANGED lookupsRest

InitLookups ==
  /\ OldIdle
  /\ MarkIdle
  /\ EntryIdle
  /\ RetrievalIdle
  /\ lookupThreads = [active_requests |-> {},
                      th |-> [t \in Threads |-> NoLookupThread]]

NextLookups ==
  \/ \E t \in Threads, n \in 0..MaxAsked : LookupThreadCall(t, n)
  \/ \E t \in Threads : BeginAccess(t)
  \/ \E t \in Threads : EndAccess(t)
  \/ \E t \in Threads, expired \in BOOLEAN :
       \E answered \in SUBSET (1..lookupThreads.th[t].asked) :
         LookupThreadLoop(t, expired, answered)

SpecLookups == InitLookups /\ [][NextLookups]_vars

(***************************************************************************)
(* Claim on the concurrent lookups (SpecLookups).                          *)
(***************************************************************************)
\* C39: when several threads run closestNodesLookupTask at the same time,
\* their accesses to active_requests exclude each other: no insert, find or
\* erase of one call is under way while an access of another call is.
ActiveRequestsExclusive ==
  \A t1, t2 \in Threads :
    (t1 # t2 /\ lookupThreads.th[t1].inside) => ~lookupThreads.th[t2].inside

====
